---- MODULE Spec2Model ----
(***************************************************************************)
(* Verification model of the agent REST facade: the agent controller       *)
(* (parameter parsing, existence guard, error classification), the use     *)
(* cases, the Retell repository / client error path, and the two health    *)
(* endpoints (simple handler and enhanced plugin).                         *)
(*                                                                         *)
(* JavaScript values are records [t, cls, v]: t is the typeof tag, cls the *)
(* constructor name ("" for primitives) and v the printed value.  Strings  *)
(* are TLA+ strings, so String.prototype.includes and trim are computed    *)
(* character by character.                                                 *)
(***************************************************************************)
EXTENDS Integers, Sequences, FiniteSets, TLC

VARIABLES
    pc,         \* position of the agent handler: "idle", "awaiting", "done"
    request,    \* [handler, params] of the request being handled
    repoCalls,  \* calls made on the AgentRepository: sequence of [method, id]
    outcome,    \* how the repository promise settled, as the handler saw it
    upstream,   \* what the Retell API answered (when the Retell repository is used)
    replies,    \* responses sent on the reply: sequence of [status, body]
    promise,    \* the handler's own promise: "pending", "resolved", "rejected"
    hpc,        \* position of the health handler: "idle", "checking", "done"
    hreq,       \* which health endpoint is being served
    probes,     \* names registered on the DependencyHealthChecker
    results,    \* results collected so far by checkAll
    hcheck,     \* how the ServiceChecker's promise settled
    hreply,     \* the health response: [status, body]
    capc,       \* position of checkAll: "idle", "awaiting", "returned"
    clock,      \* milliseconds since checkAll was called
    checkers,   \* how each registered checker behaves when checkAll calls it
    races,      \* per probe whose iteration began: [start, probe, timer]
    returnedAt, \* the clock when checkAll returned, -1 before
    capromise,  \* checkAll's promise: "pending", "resolved", "rejected"
    mapping,    \* the last call of a repository mapper: [fn, input, output]
    fetch,      \* one call of RetellApiClient.getAgentPrompt and what came of it
    metrics,    \* the fields of the MetricsCollector singleton
    inflight,   \* requests that carry request.metrics and are not answered yet
    arrived,    \* number of requests that have arrived
    recorded,   \* number of recordRequest calls made by the onResponse hook
    resets,     \* number of reset() calls
    timings,    \* the durations recorded since the last reset, in arrival order
    conc,       \* agent-handler invocations in flight together, one per request
    repoLog,    \* calls made on the shared AgentRepository: [method, id, request]
    handled,    \* the last error given to the registered errorHandler and its reply
    app,        \* createApp: its options, position, route table and outcome
    proc,       \* the server process: signal handlers, shutdown sequences, exit
    hook        \* one mounted useApi hook: its state and the fetches in flight

vars == <<pc, request, repoCalls, outcome, upstream, replies, promise,
          hpc, hreq, probes, results, hcheck, hreply,
          capc, clock, checkers, races, returnedAt, capromise, mapping, fetch,
          metrics, inflight, arrived, recorded, resets, timings, conc, repoLog,
          handled, app, proc, hook>>

agentVars == <<pc, request, repoCalls, outcome, upstream, replies, promise>>
healthVars == <<hpc, hreq, probes, results, hcheck, hreply>>
checkAllVars == <<capc, clock, checkers, races, returnedAt, capromise>>
metricsVars == <<metrics, inflight, arrived, recorded, resets, timings>>
concVars == <<conc, repoLog>>

(***************************************************************************)
(* Bounds                                                                  *)
(***************************************************************************)
\* an error message of the input space is at most MaxWords fragments long
MaxWords == 2
\* at most MaxProbes health checks are registered
MaxProbes == 2
\* the upstream lists at most MaxVersions versions of an agent
MaxVersions == 2
\* at most MaxRequests requests arrive while the metrics are observed
MaxRequests == 3
\* reset() is called at most MaxResets times
MaxResets == 1
\* at most MaxInFlight agent requests are in flight together
MaxInFlight == 2
MaxSignals == 2
TickMs == 5000
MaxRecorded == 1003
MaxFetches == 3
Varied == 2

(***************************************************************************)
(* JavaScript values                                                       *)
(***************************************************************************)
JS(t, cls, v) == [t |-> t, cls |-> cls, v |-> v]
Undefined == JS("undefined", "", "undefined")
Null == JS("object", "", "null")
Str(s) == JS("string", "", s)
Num(s) == JS("number", "", s)
Bool(s) == JS("boolean", "", s)
Obj(cls, id) == JS("object", cls, id)

\* ToBoolean: the falsy values are undefined, null, false, 0, NaN and ''
Truthy(x) ==
    /\ x # Undefined
    /\ x # Null
    /\ ~(x.t = "boolean" /\ x.v = "false")
    /\ ~(x.t = "number" /\ x.v \in {"0", "NaN"})
    /\ ~(x.t = "string" /\ x.v = "")

\* String.prototype.includes
Includes(s, k) ==
    \E i \in 1..(Len(s) - Len(k) + 1) : SubSeq(s, i, i + Len(k) - 1) = k

UpperCase == "ABCDEFGHIJKLMNOPQRSTUVWXYZ"
LowerCase == "abcdefghijklmnopqrstuvwxyz"
\* String.prototype.toLowerCase
RECURSIVE ToLowerCase(_)
ToLowerCase(s) ==
    IF s = "" THEN ""
    ELSE LET c == SubSeq(s, 1, 1)
             rest == ToLowerCase(SubSeq(s, 2, Len(s)))
         IN IF \E i \in 1..Len(UpperCase) : SubSeq(UpperCase, i, i) = c
            THEN LET i == CHOOSE j \in 1..Len(UpperCase) : SubSeq(UpperCase, j, j) = c
                 IN SubSeq(LowerCase, i, i) \o rest
            ELSE c \o rest

Whitespace == {" ", "\t", "\n"}

RECURSIVE TrimStart(_)
TrimStart(s) ==
    IF Len(s) > 0 /\ SubSeq(s, 1, 1) \in Whitespace
    THEN TrimStart(SubSeq(s, 2, Len(s)))
    ELSE s

RECURSIVE TrimEnd(_)
TrimEnd(s) ==
    IF Len(s) > 0 /\ SubSeq(s, Len(s), Len(s)) \in Whitespace
    THEN TrimEnd(SubSeq(s, 1, Len(s) - 1))
    ELSE s

\* String.prototype.trim
Trim(s) == TrimEnd(TrimStart(s))

(***************************************************************************)
(* Errors                                                                  *)
(***************************************************************************)
ErrorClasses == {"Error", "ValidationError", "NotFoundError", "ExternalServiceError"}

NewError(cls, message) == Obj(cls, message)
\* error instanceof Error
IsError(x) == x.cls \in ErrorClasses
\* error instanceof NotFoundError
IsNotFoundError(x) == x.cls = "NotFoundError"
\* error instanceof ExternalServiceError
IsExternalServiceError(x) == x.cls = "ExternalServiceError"

\* completion of a synchronous piece of code: a value, or a thrown value
Return(v) == [thrown |-> FALSE, value |-> v]
Throw(e) == [thrown |-> TRUE, value |-> e]

(***************************************************************************)
(* Constants of the controllers                                            *)
(***************************************************************************)
HTTP_STATUS ==
    [OK |-> 200, CREATED |-> 201, BAD_REQUEST |-> 400, UNAUTHORIZED |-> 401,
     FORBIDDEN |-> 403, NOT_FOUND |-> 404, INTERNAL_SERVER_ERROR |-> 500,
     BAD_GATEWAY |-> 502, SERVICE_UNAVAILABLE |-> 503]

AGENTS_RETRIEVED == "Agents retrieved successfully"
AGENT_RETRIEVED == "Agent retrieved successfully"
AGENT_PROMPT_RETRIEVED == "Agent prompt retrieved successfully"
\* referenced by the controller; its text is not in the constants file
AGENT_VERSIONS_RETRIEVED == "Agent versions retrieved successfully"
AGENT_NOT_FOUND(id) == "Agent with ID " \o id \o " not found"
AGENT_PROMPT_NOT_FOUND(id) == "Agent prompt for ID " \o id \o " not found"

Handlers == {"listAgents", "getAgent", "getAgentPrompt", "getAgentVersions"}

\* the defaultErrorMessage each handler passes to safeAsyncHandler
DefaultErrorMessage(h) ==
    CASE h = "listAgents" -> "Failed to retrieve agents"
      [] h = "getAgent" -> "Failed to retrieve agent"
      [] h = "getAgentPrompt" -> "Failed to retrieve agent prompt"
      [] h = "getAgentVersions" -> "Failed to retrieve agent versions"

(***************************************************************************)
(* Agent controller: pure parts                                            *)
(***************************************************************************)
\* GetAgentParamsSchema = z.object({ id: z.string().min(1, 'Agent ID is required') })
\* the list of issue messages; empty when the params parse
GetAgentParamsSchemaIssues(params) ==
    IF params.id = Undefined THEN <<"Required">>
    ELSE IF params.id.t # "string" THEN <<"Expected string, received null">>
    ELSE IF Len(params.id.v) < 1 THEN <<"Agent ID is required">>
    ELSE <<>>

RECURSIVE Join(_, _)
Join(msgs, sep) ==
    IF Len(msgs) = 0 THEN ""
    ELSE IF Len(msgs) = 1 THEN msgs[1]
    ELSE msgs[1] \o sep \o Join(Tail(msgs), sep)

parseAgentParams(params) ==
    LET issues == GetAgentParamsSchemaIssues(params)
    IN IF Len(issues) > 0
       THEN Throw(NewError("Error", "Invalid agent ID: " \o Join(issues, ", ")))
       ELSE Return(params.id.v)

\* mutant: the guard written as `resource == null`
ensureResourceExists_nullish(resource, errorMessage) ==
    IF resource = Null \/ resource = Undefined
    THEN Throw(NewError("NotFoundError", errorMessage))
    ELSE Return(resource)

ensureResourceExists(resource, errorMessage) ==
    IF ~Truthy(resource)
    THEN Throw(NewError("NotFoundError", errorMessage))
    ELSE Return(resource)

sendSuccessResponse(data, message) ==
    [status |-> HTTP_STATUS.OK, body |-> [data |-> data, message |-> message]]

\* mutant: the authorization check placed before the connectivity check
getErrorStatusCode_authFirst(error) ==
    IF IsNotFoundError(error) THEN HTTP_STATUS.NOT_FOUND
    ELSE IF IsError(error)
              /\ (\/ Includes(error.v, "Invalid agent ID")
                  \/ Includes(error.v, "validation")
                  \/ Includes(error.v, "required"))
         THEN HTTP_STATUS.BAD_REQUEST
    ELSE IF IsError(error)
              /\ (\/ Includes(error.v, "unauthorized")
                  \/ Includes(error.v, "forbidden")
                  \/ Includes(error.v, "authentication"))
         THEN HTTP_STATUS.UNAUTHORIZED
    ELSE IF IsError(error)
              /\ (\/ Includes(error.v, "timeout")
                  \/ Includes(error.v, "connection")
                  \/ Includes(error.v, "network"))
         THEN HTTP_STATUS.BAD_GATEWAY
    ELSE HTTP_STATUS.INTERNAL_SERVER_ERROR

\* mutant: the 'required' keyword left out of the validation check
getErrorStatusCode_noRequired(error) ==
    IF IsNotFoundError(error) THEN HTTP_STATUS.NOT_FOUND
    ELSE IF IsError(error)
              /\ (\/ Includes(error.v, "Invalid agent ID")
                  \/ Includes(error.v, "validation"))
         THEN HTTP_STATUS.BAD_REQUEST
    ELSE IF IsError(error)
              /\ (\/ Includes(error.v, "timeout")
                  \/ Includes(error.v, "connection")
                  \/ Includes(error.v, "network"))
         THEN HTTP_STATUS.BAD_GATEWAY
    ELSE IF IsError(error)
              /\ (\/ Includes(error.v, "unauthorized")
                  \/ Includes(error.v, "forbidden")
                  \/ Includes(error.v, "authentication"))
         THEN HTTP_STATUS.UNAUTHORIZED
    ELSE HTTP_STATUS.INTERNAL_SERVER_ERROR

\* mutant: the keywords are looked for whatever the capitalisation
getErrorStatusCode_ignoreCase(error) ==
    IF IsNotFoundError(error) THEN HTTP_STATUS.NOT_FOUND
    ELSE IF IsError(error)
              /\ (\/ Includes(ToLowerCase(error.v), "invalid agent id")
                  \/ Includes(ToLowerCase(error.v), "validation")
                  \/ Includes(ToLowerCase(error.v), "required"))
         THEN HTTP_STATUS.BAD_REQUEST
    ELSE IF IsError(error)
              /\ (\/ Includes(ToLowerCase(error.v), "timeout")
                  \/ Includes(ToLowerCase(error.v), "connection")
                  \/ Includes(ToLowerCase(error.v), "network"))
         THEN HTTP_STATUS.BAD_GATEWAY
    ELSE IF IsError(error)
              /\ (\/ Includes(ToLowerCase(error.v), "unauthorized")
                  \/ Includes(ToLowerCase(error.v), "forbidden")
                  \/ Includes(ToLowerCase(error.v), "authentication"))
         THEN HTTP_STATUS.UNAUTHORIZED
    ELSE HTTP_STATUS.INTERNAL_SERVER_ERROR

getErrorStatusCode(error) ==
    IF IsNotFoundError(error) THEN HTTP_STATUS.NOT_FOUND
    ELSE IF IsError(error)
              /\ (\/ Includes(error.v, "Invalid agent ID")
                  \/ Includes(error.v, "validation")
                  \/ Includes(error.v, "required"))
         THEN HTTP_STATUS.BAD_REQUEST
    ELSE IF IsError(error)
              /\ (\/ Includes(error.v, "timeout")
                  \/ Includes(error.v, "connection")
                  \/ Includes(error.v, "network"))
         THEN HTTP_STATUS.BAD_GATEWAY
    ELSE IF IsError(error)
              /\ (\/ Includes(error.v, "unauthorized")
                  \/ Includes(error.v, "forbidden")
                  \/ Includes(error.v, "authentication"))
         THEN HTTP_STATUS.UNAUTHORIZED
    ELSE HTTP_STATUS.INTERNAL_SERVER_ERROR

\* mutant: the message chosen with `error.message || defaultMessage`
handleError_orDefault(error, defaultMessage) ==
    [status |-> getErrorStatusCode(error),
     body |-> [data |-> Null,
               message |-> IF IsError(error) /\ error.v # "" THEN error.v
                           ELSE defaultMessage]]

handleError(error, defaultMessage) ==
    [status |-> getErrorStatusCode(error),
     body |-> [data |-> Null,
               message |-> IF IsError(error) THEN error.v ELSE defaultMessage]]

\* mutant: no try / catch around the handler
safeAsyncHandler_noCatch(sent, completion, defaultErrorMessage) ==
    IF completion.thrown
    THEN [replies |-> sent, promise |-> "rejected"]
    ELSE [replies |-> sent, promise |-> "resolved"]

\* sent: the replies the wrapped async function sent; completion: how it
\* ended (normally, or with a thrown value)
safeAsyncHandler(sent, completion, defaultErrorMessage) ==
    IF completion.thrown
    THEN [replies |-> Append(sent, handleError(completion.value, defaultErrorMessage)),
          promise |-> "resolved"]
    ELSE [replies |-> sent, promise |-> "resolved"]

(***************************************************************************)
(* Use cases                                                               *)
(***************************************************************************)
\* mutant: the guard written as `if (!id)`, without the trim
getAgentUseCaseGuard_noTrim(id) ==
    IF id = ""
    THEN Throw(NewError("Error", "Agent ID is required"))
    ELSE Return(id)

\* getAgent / getAgentPrompt use case: validation before the repository call;
\* returns the id the repository is called with
getAgentUseCaseGuard(id) ==
    IF id = "" \/ Trim(id) = ""
    THEN Throw(NewError("Error", "Agent ID is required"))
    ELSE Return(id)

getAgentVersionsUseCaseGuard(agentId) ==
    IF agentId = "" \/ Len(Trim(agentId)) = 0
    THEN Throw(NewError("ValidationError", "Agent ID is required"))
    ELSE Return(Trim(agentId))

useCaseGuard(h, id) ==
    IF h = "getAgentVersions" THEN getAgentVersionsUseCaseGuard(id)
    ELSE getAgentUseCaseGuard(id)

(***************************************************************************)
(* Retell API client and repository (error path)                           *)
(***************************************************************************)
API_TIMEOUT == 10000

\* What the upstream API did with one GET.  kind "ok": a 2xx answer;
\* "status": a non-2xx answer with that status and, possibly, a message in
\* its JSON body ("" when the body carries none); "timeout" / "network": no
\* answer at all.
Answer(kind, status, message) == [kind |-> kind, status |-> status, message |-> message]
OkAnswer == Answer("ok", 200, "")
FailureStatuses == {401, 404, 500}
BodyMessages == {"", "Agent not found", "Rate limited, retry in 404 ms"}
HttpAnswers ==
    {OkAnswer}
    \cup {Answer("status", s, m) : s \in FailureStatuses, m \in BodyMessages}
    \cup {Answer("timeout", 0, ""), Answer("network", 0, "")}

\* error.message as axios sets it
AxiosErrorMessage(a) ==
    CASE a.kind = "status" -> "Request failed with status code " \o ToString(a.status)
      [] a.kind = "timeout" -> "timeout of " \o ToString(API_TIMEOUT) \o "ms exceeded"
      [] OTHER -> "Network Error"

\* the response interceptor's rejection handler
ResponseInterceptor(a) ==
    LET message == IF a.message # "" THEN a.message
                   ELSE IF AxiosErrorMessage(a) # "" THEN AxiosErrorMessage(a)
                   ELSE "Retell AI API request failed"
    IN NewError("ExternalServiceError", "Retell AI API error: " \o message)

\* httpClient.get: the data of a 2xx answer, or the interceptor's error
HttpGet(a, data) == IF a.kind = "ok" THEN Return(data) ELSE Throw(ResponseInterceptor(a))

\* RetellApiClient.listAgents / getAgent / getLLM: an ExternalServiceError is
\* rethrown, anything else wrapped (the interceptor only throws the former)
ClientGet(a, data, wrapMessage) ==
    LET r == HttpGet(a, data)
    IN IF r.thrown /\ ~IsExternalServiceError(r.value)
       THEN Throw(NewError("ExternalServiceError", wrapMessage))
       ELSE r

ClientListAgents(a) ==
    ClientGet(a, Obj("Array", "agents"), "Failed to list agents from Retell AI")

ClientGetAgent(id, a, llmId) ==
    ClientGet(a, Obj("ApiAgent", llmId), "Failed to get agent " \o id \o " from Retell AI")

ClientGetLLM(llmId, a) ==
    ClientGet(a, Obj("ApiLLM", llmId), "Failed to get LLM " \o llmId \o " from Retell AI")

\* RetellApiClient.getAgentPrompt: agent first, then its LLM; llmId = "" is
\* an agent without response_engine.llm_id
ClientGetAgentPrompt(id, a, llmId, l) ==
    LET agent == ClientGetAgent(id, a, llmId)
        llm == ClientGetLLM(llmId, l)
    IN IF agent.thrown THEN agent
       ELSE IF agent.value.v = ""
            THEN Throw(NewError("ExternalServiceError",
                       "Failed to get agent prompt for " \o id \o " from Retell AI"))
       ELSE IF llm.thrown THEN llm
       ELSE Return(Obj("ApiPrompt", id))

\* the GETs getAgentPrompt performs, in order
ClientGetAgentPromptCalls(id, a, llmId, l) ==
    IF a.kind = "ok" /\ llmId # ""
    THEN <<[path |-> "/get-agent/" \o id, answer |-> a],
           [path |-> "/get-retell-llm/" \o llmId, answer |-> l]>>
    ELSE <<[path |-> "/get-agent/" \o id, answer |-> a]>>

is404Error(error) == IsError(error) /\ Includes(error.v, "404")

\* the mapped entities as the handlers see them: objects, always truthy
\* (their fields are given by mapToAgent and mapToAgentPrompt below)
AgentEntity(apiAgent) == Obj("Agent", apiAgent.v)
AgentPromptEntity(apiPrompt) == Obj("AgentPrompt", apiPrompt.v)

Resolved(v) == [settled |-> "resolved", value |-> v]
Rejected(e) == [settled |-> "rejected", value |-> e]
NotSettled == [settled |-> "none", value |-> Undefined]

\* repository getAgent / getAgentPrompt: try { map(await client...) } catch
RepositoryGetOrNull(r, mapped) ==
    IF r.thrown
    THEN IF is404Error(r.value) THEN Resolved(Null) ELSE Rejected(r.value)
    ELSE Resolved(mapped)

RepositoryListAgents(a) ==
    LET r == ClientListAgents(a)
    IN IF r.thrown THEN Rejected(r.value) ELSE Resolved(r.value)

RepositoryGetAgent(id, a, llmId) ==
    LET r == ClientGetAgent(id, a, llmId)
    IN RepositoryGetOrNull(r, AgentEntity(Obj("ApiAgent", id)))

RepositoryGetAgentPrompt(id, a, llmId, l) ==
    LET r == ClientGetAgentPrompt(id, a, llmId, l)
    IN RepositoryGetOrNull(r, AgentPromptEntity(Obj("ApiPrompt", id)))

(***************************************************************************)
(* Input space of the agent handlers                                       *)
(***************************************************************************)
ParamIds ==
    {Undefined, Null, Str(""), Str("   "), Str("\t\t\t"), Str("\n\n\n"),
     Str("agent-123"), Str("agent-404"), Str(" a1 ")}

Fragments ==
    {"Invalid agent ID", "validation", "required",
     "unauthorized", "forbidden", "authentication",
     "timeout", "connection", "network",
     "Unauthorized", "Network", "404"}

RECURSIVE Phrases(_)
Phrases(n) ==
    IF n <= 1 THEN Fragments
    ELSE Phrases(n - 1) \cup {p \o " " \o f : p \in Phrases(n - 1), f \in Fragments}

Messages ==
    Phrases(MaxWords)
    \cup {"", "Unauthorized access", "unauthorized access to agent", "Network timeout",
          "Agent name is required", "Database connection failed", "Network unreachable",
          "Access forbidden to this agent", "authentication failed for agent access",
          "Something unexpected happened",
          "Retell AI API error: Request failed with status code 500"}

RepositoryErrorClasses == {"Error", "NotFoundError", "ExternalServiceError"}
NonErrors == {Str("String error"), Num("42"), Null, Undefined}
FalsyValues == {Null, Undefined, Bool("false"), Num("0"), Str(""), Num("NaN")}
TruthyValues == {Obj("Agent", "agent-123"), Obj("Array", "")}

RepoOutcomes ==
    {Resolved(v) : v \in FalsyValues \cup TruthyValues}
    \cup {Rejected(NewError(c, m)) : c \in RepositoryErrorClasses, m \in Messages}
    \cup {Rejected(x) : x \in NonErrors}

(***************************************************************************)
(* Agent handlers                                                          *)
(***************************************************************************)
\* the part of a handler's async function before its await: the completion
\* is the id the repository is about to be called with, or a thrown error
handlerPrologue(h, params) ==
    LET parsed == parseAgentParams(params)
    IN IF h = "listAgents" THEN Return("")
       ELSE IF parsed.thrown THEN parsed
       ELSE useCaseGuard(h, parsed.value)

\* the part after the await: [sent, completion]
handlerEpilogue(h, id, o) ==
    LET found == ensureResourceExists(o.value,
                     IF h = "getAgent" THEN AGENT_NOT_FOUND(id)
                     ELSE AGENT_PROMPT_NOT_FOUND(id))
        message == CASE h = "listAgents" -> AGENTS_RETRIEVED
                     [] h = "getAgent" -> AGENT_RETRIEVED
                     [] h = "getAgentPrompt" -> AGENT_PROMPT_RETRIEVED
                     [] h = "getAgentVersions" -> AGENT_VERSIONS_RETRIEVED
    IN IF o.settled = "rejected"
       THEN [sent |-> <<>>, completion |-> Throw(o.value)]
       ELSE IF h \in {"getAgent", "getAgentPrompt"} /\ found.thrown
       THEN [sent |-> <<>>, completion |-> found]
       ELSE [sent |-> <<sendSuccessResponse(o.value, message)>>,
             completion |-> Return(Undefined)]

\* a request arrives; the handler runs up to its await
Receive(h, params) ==
    /\ pc = "idle"
    /\ request' = [handler |-> h, params |-> params]
    /\ LET c == handlerPrologue(h, params)
           end == safeAsyncHandler(<<>>, c, DefaultErrorMessage(h))
       IN IF c.thrown
          THEN /\ pc' = "done"
               /\ replies' = end.replies
               /\ promise' = end.promise
               /\ repoCalls' = repoCalls
          ELSE /\ pc' = "awaiting"
               /\ repoCalls' = Append(repoCalls, [method |-> h, id |-> c.value])
               /\ UNCHANGED <<replies, promise>>
    /\ UNCHANGED <<outcome, upstream>>
    /\ UNCHANGED healthVars

\* the handler resumes with the repository's outcome and runs to its end
Resume(o, calls) ==
    /\ pc = "awaiting"
    /\ outcome' = o
    /\ upstream' = calls
    /\ LET h == request.handler
           e == handlerEpilogue(h, request.params.id.v, o)
           end == safeAsyncHandler(e.sent, e.completion, DefaultErrorMessage(h))
       IN /\ replies' = end.replies
          /\ promise' = end.promise
    /\ pc' = "done"
    /\ UNCHANGED <<request, repoCalls>>
    /\ UNCHANGED healthVars

\* any AgentRepository (the port): its promise settles in any way
RepositorySettles ==
    \E o \in RepoOutcomes : Resume(o, <<>>)

\* the Retell repository: its promise settles as the upstream answers decide
RetellListAgentsSettles ==
    /\ pc = "awaiting" /\ request.handler = "listAgents"
    /\ \E a \in HttpAnswers :
          Resume(RepositoryListAgents(a), <<[path |-> "/list-agents", answer |-> a]>>)

RetellGetAgentSettles ==
    /\ pc = "awaiting" /\ request.handler = "getAgent"
    /\ \E a \in HttpAnswers, llmId \in {"", "llm-1"} :
          LET id == repoCalls[1].id
          IN Resume(RepositoryGetAgent(id, a, llmId),
                    <<[path |-> "/get-agent/" \o id, answer |-> a]>>)

RetellGetAgentPromptSettles ==
    /\ pc = "awaiting" /\ request.handler = "getAgentPrompt"
    /\ \E a \in HttpAnswers, llmId \in {"", "llm-1"}, l \in HttpAnswers :
          LET id == repoCalls[1].id
          IN Resume(RepositoryGetAgentPrompt(id, a, llmId, l),
                    ClientGetAgentPromptCalls(id, a, llmId, l))

AgentInit ==
    /\ pc = "idle"
    /\ request = [handler |-> "none", params |-> [id |-> Undefined]]
    /\ repoCalls = <<>>
    /\ outcome = NotSettled
    /\ upstream = <<>>
    /\ replies = <<>>
    /\ promise = "pending"

AgentNext ==
    /\ \/ \E h \in Handlers \ {"listAgents"}, id \in ParamIds : Receive(h, [id |-> id])
       \/ Receive("listAgents", [id |-> Undefined])
       \/ RepositorySettles
       \/ RetellListAgentsSettles
       \/ RetellGetAgentSettles
       \/ RetellGetAgentPromptSettles
    /\ UNCHANGED <<checkAllVars, mapping, fetch, metricsVars, concVars, handled, app, proc, hook>>

(***************************************************************************)
(* Health controller (simple variant)                                      *)
(***************************************************************************)
HEALTH_CHECK_FAILED == "Health check failed"
SERVICE_NOT_READY == "Service is not ready"
SERVICE_NOT_ALIVE == "Service is not alive"

\* HEALTH_CONFIG.SERVICES
ServiceNames == {"retell-ai", "database", "external-api"}
\* Record<string, 'up' | 'down'>
ServiceMaps == UNION {[S -> {"up", "down"}] : S \in SUBSET ServiceNames}

\* mutant: `every` in place of `some`
determineOverallHealth_every(services) ==
    LET allDownServices == \A name \in DOMAIN services : services[name] = "down"
    IN IF allDownServices THEN "unhealthy" ELSE "healthy"

determineOverallHealth(services) ==
    LET hasDownServices == \E name \in DOMAIN services : services[name] = "down"
    IN IF hasDownServices THEN "unhealthy" ELSE "healthy"

performHealthCheck(services, now, uptime) ==
    [status |-> determineOverallHealth(services),
     timestamp |-> now,
     uptime |-> uptime,
     services |-> services]

\* the X-Response-Time header is not kept
sendHealthResponse(health) == [status |-> HTTP_STATUS.OK, body |-> health]

sendRawResponse(data) == [status |-> HTTP_STATUS.OK, body |-> data]

\* mutant: 'connection' is not looked for
healthGetErrorStatusCode_noConnection(error) ==
    IF IsError(error)
         /\ (Includes(error.v, "dependencies") \/ Includes(error.v, "ready"))
    THEN HTTP_STATUS.SERVICE_UNAVAILABLE
    ELSE IF IsError(error) /\ Includes(error.v, "timeout")
    THEN HTTP_STATUS.SERVICE_UNAVAILABLE
    ELSE HTTP_STATUS.INTERNAL_SERVER_ERROR

healthGetErrorStatusCode(error) ==
    IF IsError(error)
         /\ (Includes(error.v, "dependencies") \/ Includes(error.v, "ready"))
    THEN HTTP_STATUS.SERVICE_UNAVAILABLE
    ELSE IF IsError(error)
              /\ (Includes(error.v, "timeout") \/ Includes(error.v, "connection"))
    THEN HTTP_STATUS.SERVICE_UNAVAILABLE
    ELSE HTTP_STATUS.INTERNAL_SERVER_ERROR

healthHandleError(error, defaultMessage) ==
    [status |-> healthGetErrorStatusCode(error),
     body |-> [data |-> Null,
               message |-> IF IsError(error) THEN error.v ELSE defaultMessage]]

\* what an injected ServiceChecker / TimeProvider can produce
TimeStamps == {"2023-01-01T00:00:00.000Z"}
Uptimes == {0, 3600}
CheckerErrors ==
    {NewError("Error", m) :
        m \in {"", "Service dependencies are not ready", "Network unreachable",
               "connection refused", "Health check timeout",
               "Service dependencies are not working",
               "System not ready to serve requests", "Request timeout exceeded",
               "Database connection failed", "Something unexpected happened",
               "Connection Timeout"}}
    \cup {Str("String error"), Str("timeout"), Null}

(***************************************************************************)
(* Enhanced health plugin                                                  *)
(***************************************************************************)
HEALTH_CHECK_TIMEOUT_MS == 5000

HealthStatus == [HEALTHY |-> "healthy", UNHEALTHY |-> "unhealthy", DEGRADED |-> "degraded"]

ProbeNames == {"retell-api", "database", "redis"}

\* HealthCheckResult; message "" and responseTime -1 stand for an absent field
HealthCheckResult(status, message, responseTime) ==
    [status |-> status, message |-> message, responseTime |-> responseTime]

\* how the race of one probe against its timer can end: the probe resolves
\* with a result after `elapsed` ms, the probe rejects, or the timer rejects
ProbeResolutions ==
    {[won |-> "resolve",
      result |-> HealthCheckResult(s, "", rt), elapsed |-> e, error |-> Undefined] :
        s \in {"healthy", "degraded", "unhealthy"}, rt \in {-1, 12}, e \in {0, 40}}
ProbeRejections ==
    {[won |-> "reject",
      result |-> HealthCheckResult("", "", -1), elapsed |-> 0, error |-> x] :
        x \in {NewError("Error", "fetch failed"), Str("String error")}}
ProbeTimeouts ==
    {[won |-> "timer",
      result |-> HealthCheckResult("", "", -1), elapsed |-> HEALTH_CHECK_TIMEOUT_MS,
      error |-> NewError("Error", "Health check timeout")]}
RaceOutcomes == ProbeResolutions \cup ProbeRejections \cup ProbeTimeouts

\* mutant: the catch records the time measured instead of the timeout
checkOne_measured(race) ==
    IF race.won = "resolve"
    THEN IF race.result.responseTime = -1 \/ race.result.responseTime = 0
         THEN [race.result EXCEPT !.responseTime = race.elapsed]
         ELSE race.result
    ELSE HealthCheckResult(
             HealthStatus.UNHEALTHY,
             IF IsError(race.error) THEN race.error.v ELSE "Unknown error",
             race.elapsed)

\* the body of checkAll's loop for one probe, given how its race ended
checkOne(race) ==
    IF race.won = "resolve"
    THEN IF race.result.responseTime = -1 \/ race.result.responseTime = 0
         THEN [race.result EXCEPT !.responseTime = race.elapsed]
         ELSE race.result
    ELSE HealthCheckResult(
             HealthStatus.UNHEALTHY,
             IF IsError(race.error) THEN race.error.v ELSE "Unknown error",
             HEALTH_CHECK_TIMEOUT_MS)

\* Object.values(dependencyResults).map(r => r.status)
dependencyStatuses(deps) == {deps[i].result.status : i \in 1..Len(deps)}

\* mutant: the degraded test placed before the unhealthy test
overallStatus_degradedFirst(deps) ==
    IF HealthStatus.DEGRADED \in dependencyStatuses(deps) THEN HealthStatus.DEGRADED
    ELSE IF HealthStatus.UNHEALTHY \in dependencyStatuses(deps) THEN HealthStatus.UNHEALTHY
    ELSE HealthStatus.HEALTHY

overallStatus(deps) ==
    IF HealthStatus.UNHEALTHY \in dependencyStatuses(deps) THEN HealthStatus.UNHEALTHY
    ELSE IF HealthStatus.DEGRADED \in dependencyStatuses(deps) THEN HealthStatus.DEGRADED
    ELSE HealthStatus.HEALTHY

enhancedStatusCode(overall) ==
    IF overall = HealthStatus.HEALTHY THEN 200
    ELSE IF overall = HealthStatus.DEGRADED THEN 200
    ELSE 503

\* the response of GET /health; the fields read from the process (timestamp,
\* uptime, version, environment, memory, cpu) are not kept
enhancedHealthResponse(deps) ==
    [status |-> enhancedStatusCode(overallStatus(deps)),
     body |-> [status |-> overallStatus(deps), dependencies |-> deps]]

(***************************************************************************)
(* Health actions                                                          *)
(***************************************************************************)
\* healthChecker.registerHealthCheck(name, checker)
RegisterHealthCheck(name) ==
    /\ hpc = "idle"
    /\ Len(probes) < MaxProbes
    /\ \A i \in 1..Len(probes) : probes[i] # name
    /\ probes' = Append(probes, name)
    /\ UNCHANGED <<hpc, hreq, results, hcheck, hreply>>
    /\ UNCHANGED agentVars

\* createHealthHandlers.getHealth up to its await
GetHealthReceive ==
    /\ hpc = "idle"
    /\ hreq' = "getHealth"
    /\ hpc' = "checking"
    /\ UNCHANGED <<probes, results, hcheck, hreply>>
    /\ UNCHANGED agentVars

\* checkAllServices resolved: the rest of getHealth
ServiceCheckerResolves(services, now, uptime) ==
    /\ hpc = "checking"
    /\ hcheck' = Resolved(services)
    /\ hreply' = sendHealthResponse(performHealthCheck(services, now, uptime))
    /\ hpc' = "done"
    /\ UNCHANGED <<hreq, probes, results>>
    /\ UNCHANGED agentVars

\* checkAllServices rejected: the catch of getHealth
ServiceCheckerRejects(error) ==
    /\ hpc = "checking"
    /\ hcheck' = Rejected(error)
    /\ hreply' = healthHandleError(error, HEALTH_CHECK_FAILED)
    /\ hpc' = "done"
    /\ UNCHANGED <<hreq, probes, results>>
    /\ UNCHANGED agentVars

\* getReadiness: checkServiceReadiness always resolves { status: 'ready' }
GetReadiness ==
    /\ hpc = "idle"
    /\ hreq' = "getReadiness"
    /\ hreply' = sendRawResponse([status |-> "ready"])
    /\ hpc' = "done"
    /\ UNCHANGED <<probes, results, hcheck>>
    /\ UNCHANGED agentVars

\* getLiveness: checkServiceLiveness always resolves { status: 'alive' }
GetLiveness ==
    /\ hpc = "idle"
    /\ hreq' = "getLiveness"
    /\ hreply' = sendRawResponse([status |-> "alive"])
    /\ hpc' = "done"
    /\ UNCHANGED <<probes, results, hcheck>>
    /\ UNCHANGED agentVars

\* GET /health of the plugin: checkAll starts
EnhancedHealthReceive ==
    /\ hpc = "idle"
    /\ hreq' = "enhancedHealth"
    /\ hpc' = "checkAll"
    /\ results' = <<>>
    /\ UNCHANGED <<probes, hcheck, hreply>>
    /\ UNCHANGED agentVars

\* checkAll: the race of the probe the loop is waiting for ends
ProbeRaceEnds(race) ==
    /\ hpc = "checkAll"
    /\ Len(results) < Len(probes)
    /\ results' = Append(results,
                         [name |-> probes[Len(results) + 1], result |-> checkOne(race)])
    /\ UNCHANGED <<hpc, hreq, probes, hcheck, hreply>>
    /\ UNCHANGED agentVars

\* checkAll has returned and getCpuUsage resolved: the handler answers
EnhancedHealthRespond ==
    /\ hpc = "checkAll"
    /\ Len(results) = Len(probes)
    /\ hreply' = enhancedHealthResponse(results)
    /\ hpc' = "done"
    /\ UNCHANGED <<hreq, probes, results, hcheck>>
    /\ UNCHANGED agentVars

HealthNext ==
    /\ \/ \E name \in ProbeNames : RegisterHealthCheck(name)
       \/ GetHealthReceive
       \/ \E services \in ServiceMaps, now \in TimeStamps, uptime \in Uptimes :
             ServiceCheckerResolves(services, now, uptime)
       \/ \E error \in CheckerErrors : ServiceCheckerRejects(error)
       \/ GetReadiness
       \/ GetLiveness
       \/ EnhancedHealthReceive
       \/ \E race \in RaceOutcomes : ProbeRaceEnds(race)
       \/ EnhancedHealthRespond
    /\ UNCHANGED <<checkAllVars, mapping, fetch, metricsVars, concVars, handled, app, proc, hook>>

HealthInit ==
    /\ hpc = "idle"
    /\ hreq = "none"
    /\ probes = <<>>
    /\ results = <<>>
    /\ hcheck = NotSettled
    /\ hreply = [status |-> 0, body |-> [status |-> "none"]]

(***************************************************************************)
(* DependencyHealthChecker.checkAll with its timers                        *)
(***************************************************************************)
\* what a registered checker does when called: resolve or reject `after` ms
\* later, throw before returning a promise, or never settle
CheckerBehaviours ==
    {[kind |-> "resolve", after |-> d,
      result |-> HealthCheckResult(s, "", rt), error |-> Undefined] :
        s \in {"healthy", "degraded"}, rt \in {-1, 12}, d \in {40, 7000}}
    \cup {[kind |-> "reject", after |-> d,
           result |-> HealthCheckResult("", "", -1),
           error |-> NewError("Error", "fetch failed")] : d \in {0, 7000}}
    \cup {[kind |-> "throw", after |-> 0,
           result |-> HealthCheckResult("", "", -1), error |-> Str("String error")],
          [kind |-> "never", after |-> 0,
           result |-> HealthCheckResult("", "", -1), error |-> Undefined]}

\* the synchronous run of checkAll's for loop from iteration i at time now,
\* up to its next await or its return
RECURSIVE runLoop(_, _, _, _, _)
runLoop(plan, i, res, rcs, now) ==
    IF i > Len(probes)
    THEN [pc |-> "returned", results |-> res, races |-> rcs]
    ELSE IF plan[i].kind = "throw"
    THEN runLoop(plan, i + 1,
                 Append(res, [name |-> probes[i],
                              result |-> checkOne([won |-> "reject",
                                                   result |-> plan[i].result,
                                                   elapsed |-> 0,
                                                   error |-> plan[i].error])]),
                 Append(rcs, [start |-> now, probe |-> "threw", timer |-> "none"]),
                 now)
    ELSE [pc |-> "awaiting", results |-> res,
          races |-> Append(rcs, [start |-> now, probe |-> "pending", timer |-> "armed"])]

\* mutant: a race settles again with every later outcome
RaceSettled_never(race) == FALSE

\* Promise.race([checker(), timeout]) settles with the first of its two
\* promises to settle; what the other one does later does not reach the await
RaceSettled(race) == race.probe # "pending" \/ race.timer # "armed"

\* when the pending probe i settles, when its armed timer fires
ProbeDue(i) == races[i].start + checkers[i].after
TimerDue(i) == races[i].start + HEALTH_CHECK_TIMEOUT_MS
ProbeWillSettle(i) ==
    races[i].probe = "pending" /\ checkers[i].kind \in {"resolve", "reject"}
\* t is the time of the earliest event of the event loop
IsNextEvent(t) ==
    \A j \in 1..Len(races) :
        /\ ProbeWillSettle(j) => t <= ProbeDue(j)
        /\ races[j].timer = "armed" => t <= TimerDue(j)

\* the continuation of `await Promise.race` for the probe being awaited
AwaitContinues(rcs, now, race) ==
    LET i == Len(races)
        run == runLoop(checkers, i + 1,
                       Append(results, [name |-> probes[i], result |-> checkOne(race)]),
                       rcs, now)
    IN /\ results' = run.results
       /\ races' = run.races
       /\ capc' = run.pc
       /\ returnedAt' = IF run.pc = "returned" THEN now ELSE returnedAt
       /\ capromise' = IF run.pc = "returned" THEN "resolved" ELSE capromise

\* healthChecker.checkAll() is called
CheckAllCalled(plan) ==
    /\ capc = "idle"
    /\ LET run == runLoop(plan, 1, <<>>, <<>>, 0)
       IN /\ checkers' = plan
          /\ clock' = 0
          /\ results' = run.results
          /\ races' = run.races
          /\ capc' = run.pc
          /\ returnedAt' = IF run.pc = "returned" THEN 0 ELSE returnedAt
          /\ capromise' = IF run.pc = "returned" THEN "resolved" ELSE capromise
    /\ UNCHANGED <<hpc, hreq, probes, hcheck, hreply>>

\* the promise of checker i settles
ProbeSettles(i) ==
    /\ ProbeWillSettle(i)
    /\ IsNextEvent(ProbeDue(i))
    /\ clock' = ProbeDue(i)
    /\ LET rcs == [races EXCEPT ![i].probe = "settled"]
       IN IF ~RaceSettled(races[i])
          THEN AwaitContinues(rcs, ProbeDue(i),
                              [won |-> checkers[i].kind,
                               result |-> checkers[i].result,
                               elapsed |-> ProbeDue(i) - races[i].start,
                               error |-> checkers[i].error])
          ELSE /\ races' = rcs
               /\ UNCHANGED <<results, capc, returnedAt, capromise>>
    /\ UNCHANGED <<hpc, hreq, probes, hcheck, hreply, checkers>>

\* the setTimeout callback of probe i runs
TimerFires(i) ==
    /\ races[i].timer = "armed"
    /\ IsNextEvent(TimerDue(i))
    /\ clock' = TimerDue(i)
    /\ LET rcs == [races EXCEPT ![i].timer = "fired"]
       IN IF ~RaceSettled(races[i])
          THEN AwaitContinues(rcs, TimerDue(i),
                              [won |-> "timer",
                               result |-> checkers[i].result,
                               elapsed |-> HEALTH_CHECK_TIMEOUT_MS,
                               error |-> NewError("Error", "Health check timeout")])
          ELSE /\ races' = rcs
               /\ UNCHANGED <<results, capc, returnedAt, capromise>>
    /\ UNCHANGED <<hpc, hreq, probes, hcheck, hreply, checkers>>

CheckAllNext ==
    /\ \/ \E name \in ProbeNames :
             capc = "idle" /\ RegisterHealthCheck(name) /\ UNCHANGED checkAllVars
       \/ \E plan \in [1..Len(probes) -> CheckerBehaviours] : CheckAllCalled(plan)
       \/ \E i \in 1..Len(races) : ProbeSettles(i)
       \/ \E i \in 1..Len(races) : TimerFires(i)
    /\ UNCHANGED <<agentVars, mapping, fetch, metricsVars, concVars, handled, app, proc, hook>>

CheckAllInit ==
    /\ capc = "idle"
    /\ clock = 0
    /\ checkers = <<>>
    /\ races = <<>>
    /\ returnedAt = -1
    /\ capromise = "pending"

(***************************************************************************)
(* Repository mappers                                                      *)
(***************************************************************************)
\* x || d
OrElse(x, d) == IF Truthy(x) THEN x ELSE d

\* new Date(x) for a timestamp in ms, null or undefined
NewDate(x) ==
    Obj("Date", IF x.t = "number" THEN x.v
                ELSE IF x = Null THEN "0"
                ELSE "Invalid Date")

\* mapToAgent; `now` is what new Date() returns.  An upstream agent carries
\* response_engine (an object, or undefined) and, next to it, the fields of
\* that object as `engine`
mapToAgent(apiAgent, now) ==
    [id |-> apiAgent.agent_id,
     name |-> apiAgent.agent_name,
     prompt |-> OrElse(apiAgent.system_prompt, Str("")),
     voiceId |-> apiAgent.voice_id,
     language |-> apiAgent.language,
     model |-> OrElse(IF Truthy(apiAgent.response_engine)
                      THEN apiAgent.engine.type ELSE Undefined,
                      Str("unknown")),
     temperature |-> OrElse(apiAgent.temperature, Num("0.7")),
     maxTokens |-> OrElse(apiAgent.max_tokens, Num("1000")),
     version |-> apiAgent.version,
     versionTitle |-> apiAgent.version_title,
     createdAt |-> Obj("Date", now),
     updatedAt |-> NewDate(apiAgent.last_modification_timestamp),
     channel |-> apiAgent.channel,
     isPublished |-> apiAgent.is_published,
     responseEngine |-> IF Truthy(apiAgent.response_engine)
                        THEN Obj("Object", "responseEngine") ELSE Undefined,
     engine |-> IF Truthy(apiAgent.response_engine)
                THEN [type |-> apiAgent.engine.type,
                      llmId |-> apiAgent.engine.llm_id,
                      version |-> apiAgent.engine.version]
                ELSE [type |-> Undefined, llmId |-> Undefined, version |-> Undefined]]

mapToAgentPrompt(apiPrompt) ==
    [agentId |-> apiPrompt.agent_id,
     prompt |-> apiPrompt.system_prompt,
     version |-> apiPrompt.prompt_version,
     versionTitle |-> apiPrompt.version_title,
     updatedAt |-> NewDate(apiPrompt.last_modification_time)]

mapToAgentVersion(apiVersion) ==
    [agentId |-> apiVersion.agent_id,
     version |-> apiVersion.version,
     isPublished |-> apiVersion.is_published,
     agentName |-> apiVersion.agent_name,
     voiceId |-> apiVersion.voice_id,
     voiceModel |-> apiVersion.voice_model,
     fallbackVoiceIds |-> apiVersion.fallback_voice_ids,
     voiceTemperature |-> apiVersion.voice_temperature,
     voiceSpeed |-> apiVersion.voice_speed,
     volume |-> apiVersion.volume,
     responsiveness |-> apiVersion.responsiveness,
     interruptionSensitivity |-> apiVersion.interruption_sensitivity,
     enableBackchannel |-> apiVersion.enable_backchannel,
     backchannelFrequency |-> apiVersion.backchannel_frequency,
     backchannelWords |-> apiVersion.backchannel_words,
     reminderTriggerMs |-> apiVersion.reminder_trigger_ms,
     reminderMaxCount |-> apiVersion.reminder_max_count,
     ambientSound |-> apiVersion.ambient_sound,
     ambientSoundVolume |-> apiVersion.ambient_sound_volume,
     language |-> apiVersion.language,
     webhookUrl |-> apiVersion.webhook_url,
     webhookTimeoutMs |-> apiVersion.webhook_timeout_ms,
     boostedKeywords |-> apiVersion.boosted_keywords,
     dataStorageSetting |-> apiVersion.data_storage_setting,
     optInSignedUrl |-> apiVersion.opt_in_signed_url,
     pronunciationDictionary |-> apiVersion.pronunciation_dictionary,
     normalizeForSpeech |-> apiVersion.normalize_for_speech,
     endCallAfterSilenceMs |-> apiVersion.end_call_after_silence_ms,
     maxCallDurationMs |-> apiVersion.max_call_duration_ms,
     voicemailOption |-> apiVersion.voicemail_option,
     postCallAnalysisData |-> apiVersion.post_call_analysis_data,
     postCallAnalysisModel |-> apiVersion.post_call_analysis_model,
     beginMessageDelayMs |-> apiVersion.begin_message_delay_ms,
     ringDurationMs |-> apiVersion.ring_duration_ms,
     sttMode |-> apiVersion.stt_mode,
     vocabSpecialization |-> apiVersion.vocab_specialization,
     allowUserDtmf |-> apiVersion.allow_user_dtmf,
     userDtmfOptions |-> apiVersion.user_dtmf_options,
     denoisingMode |-> apiVersion.denoising_mode,
     piiConfig |-> apiVersion.pii_config,
     responseEngine |-> apiVersion.response_engine,
     lastModificationTimestamp |-> apiVersion.last_modification_timestamp]

\* mutant: the versions come out newest first
RepositoryGetAgentVersions_reversed(response) ==
    [i \in 1..Len(response) |-> mapToAgentVersion(response[Len(response) + 1 - i])]

\* repository getAgentVersions: response.map(mapToAgentVersion)
RepositoryGetAgentVersions(response) ==
    [i \in 1..Len(response) |-> mapToAgentVersion(response[i])]

\* upstream agents
ApiAgents ==
    {[agent_id |-> Str("agent-123"), agent_name |-> n, system_prompt |-> p,
      voice_id |-> Str("11labs-Adrian"), language |-> Str("en-US"),
      response_engine |-> re, engine |-> e, temperature |-> t, max_tokens |-> mt,
      version |-> v, version_title |-> vt, last_modification_timestamp |-> ts,
      channel |-> Str("voice"), is_published |-> pub] :
        n \in {Str("Support")},
        p \in {Undefined, Null, Str(""), Str("You are helpful")},
        re \in {Undefined, Obj("Object", "response_engine")},
        e \in {[type |-> ty, llm_id |-> l, version |-> Num("0")] :
                   ty \in {Undefined, Str(""), Str("retell-llm")},
                   l \in {Undefined, Str("llm-1")}},
        t \in {Undefined, Null, Num("0"), Num("0.3")},
        mt \in {Undefined, Null, Num("0"), Num("500")},
        v \in {Num("0"), Num("3")},
        vt \in {Undefined},
        ts \in {Undefined, Num("1700000000000")},
        pub \in {Bool("false"), Bool("true")}}

\* upstream agent versions: the field names, and records that give every
\* field every kind of value, neighbouring fields different ones
ApiVersionFields ==
    <<"agent_id", "version", "is_published", "agent_name", "voice_id",
      "voice_model", "fallback_voice_ids", "voice_temperature",
      "voice_speed", "volume", "responsiveness",
      "interruption_sensitivity", "enable_backchannel",
      "backchannel_frequency", "backchannel_words", "reminder_trigger_ms",
      "reminder_max_count", "ambient_sound", "ambient_sound_volume",
      "language", "webhook_url", "webhook_timeout_ms", "boosted_keywords",
      "data_storage_setting", "opt_in_signed_url",
      "pronunciation_dictionary", "normalize_for_speech",
      "end_call_after_silence_ms", "max_call_duration_ms",
      "voicemail_option", "post_call_analysis_data",
      "post_call_analysis_model", "begin_message_delay_ms",
      "ring_duration_ms", "stt_mode", "vocab_specialization",
      "allow_user_dtmf", "user_dtmf_options", "denoising_mode",
      "pii_config", "response_engine", "last_modification_timestamp">>
FieldValues ==
    <<Undefined, Null, Num("0"), Bool("false"), Str(""), Str("x"), Num("1700000000000")>>
ApiVersion(values, k) ==
    [f \in {ApiVersionFields[i] : i \in 1..Len(ApiVersionFields)} |->
        LET i == CHOOSE j \in 1..Len(ApiVersionFields) : ApiVersionFields[j] = f
        IN values[((i + k) % Len(values)) + 1]]
\* the nested objects of an upstream version, with the keys the Retell API
\* gives them (part_011:96-101 reads response_engine.llm_id)
ApiUserDtmfOptions ==
    [digit_limit |-> Num("4"), termination_key |-> Str("#"), timeout_ms |-> Num("8000")]
ApiResponseEngine ==
    [type |-> Str("retell-llm"), llm_id |-> Str("llm-1"), version |-> Num("0")]
ApiVersions ==
    {ApiVersion(FieldValues, k) : k \in 1..Len(FieldValues)}
    \cup {ApiVersion(SubSeq(FieldValues, 1, 6), k) : k \in 1..6}
    \cup {[ApiVersion(FieldValues, 1) EXCEPT !.user_dtmf_options = ApiUserDtmfOptions,
                                             !.response_engine = ApiResponseEngine]}

\* mapToAgent is applied to what client.getAgent returned
MapAgent(apiAgent, now) ==
    /\ mapping.fn = "none"
    /\ mapping' = [fn |-> "mapToAgent", input |-> <<apiAgent>>,
                   output |-> <<mapToAgent(apiAgent, now)>>]
    /\ UNCHANGED <<agentVars, healthVars, checkAllVars, fetch, metricsVars, concVars, handled, app, proc, hook>>

\* repository getAgentVersions maps what client.getAgentVersions returned
MapAgentVersions(response) ==
    /\ mapping.fn = "none"
    /\ mapping' = [fn |-> "getAgentVersions", input |-> response,
                   output |-> RepositoryGetAgentVersions(response)]
    /\ UNCHANGED <<agentVars, healthVars, checkAllVars, fetch, metricsVars, concVars, handled, app, proc, hook>>

MapperNext ==
    \/ \E apiAgent \in ApiAgents : MapAgent(apiAgent, "1700000000500")
    \/ \E n \in 0..MaxVersions : \E response \in [1..n -> ApiVersions] :
          MapAgentVersions(response)

MapperInit == mapping = [fn |-> "none", input |-> <<>>, output |-> <<>>]

(***************************************************************************)
(* RetellApiClient.getAgentPrompt, step by step                            *)
(***************************************************************************)
API_RETRY_ATTEMPTS == 3

\* the catch of getAgentPrompt: an ExternalServiceError is rethrown, anything
\* else is wrapped
getAgentPromptCatch(id, error) ==
    IF IsExternalServiceError(error) THEN Throw(error)
    ELSE Throw(NewError("ExternalServiceError",
                        "Failed to get agent prompt for " \o id \o " from Retell AI"))

\* mutant: general_prompt is passed on without a default
AgentPromptResponse_noDefault(id, llm) ==
    [agent_id |-> Str(id),
     system_prompt |-> llm.general_prompt,
     prompt_version |-> llm.version,
     version_title |-> Undefined,
     last_modification_time |-> llm.last_modification_timestamp]

\* what getAgentPrompt returns for the LLM it fetched (it sets no version_title)
AgentPromptResponse(id, llm) ==
    [agent_id |-> Str(id),
     system_prompt |-> OrElse(llm.general_prompt, Str("")),
     prompt_version |-> llm.version,
     version_title |-> Undefined,
     last_modification_time |-> llm.last_modification_timestamp]

\* what GET /get-retell-llm/{id} can carry
ApiLLMs ==
    {[general_prompt |-> p, version |-> v, last_modification_timestamp |-> ts] :
        p \in {Undefined, Null, Str(""), Str("You are helpful")},
        v \in {Undefined, Num("0"), Num("2")},
        ts \in {Undefined, Num("1700000000000")}}

NoLLM == [general_prompt |-> Undefined, version |-> Undefined,
          last_modification_timestamp |-> Undefined]

\* client.getAgentPrompt(id) runs up to `await this.getAgent(id)`
GetAgentPromptCalled(id) ==
    /\ fetch.pc = "idle"
    /\ fetch' = [fetch EXCEPT !.pc = "getAgent", !.id = id,
                              !.calls = <<"/get-agent/" \o id>>]
    /\ UNCHANGED <<agentVars, healthVars, checkAllVars, mapping, metricsVars, concVars, handled, app, proc, hook>>

\* the GET of the agent is answered: the llm_id test, then `await this.getLLM`
AgentAnswers(a, llmId) ==
    /\ fetch.pc = "getAgent"
    /\ LET agent == ClientGetAgent(fetch.id, a, llmId)
       IN fetch' =
            IF agent.thrown
            THEN [fetch EXCEPT !.pc = "done", !.agent = a,
                               !.result = getAgentPromptCatch(fetch.id, agent.value)]
            ELSE IF ~Truthy(Str(agent.value.v))
            THEN [fetch EXCEPT !.pc = "done", !.agent = a, !.llmId = llmId,
                               !.result = getAgentPromptCatch(fetch.id,
                                   NewError("Error", "Agent " \o fetch.id
                                            \o " does not have an associated LLM"))]
            ELSE [fetch EXCEPT !.pc = "getLLM", !.agent = a, !.llmId = llmId,
                               !.calls = Append(@, "/get-retell-llm/" \o agent.value.v)]
    /\ UNCHANGED <<agentVars, healthVars, checkAllVars, mapping, metricsVars, concVars, handled, app, proc, hook>>

\* the GET of the LLM is answered: the return of getAgentPrompt, and the
\* repository's mapToAgentPrompt of it
LlmAnswers(l, data) ==
    /\ fetch.pc = "getLLM"
    /\ LET llm == ClientGetLLM(fetch.llmId, l)
       IN fetch' =
            IF llm.thrown
            THEN [fetch EXCEPT !.pc = "done", !.llm = l,
                               !.result = getAgentPromptCatch(fetch.id, llm.value)]
            ELSE [fetch EXCEPT !.pc = "done", !.llm = l, !.data = data,
                               !.result = Return(Obj("ApiPrompt", fetch.id)),
                               !.response = AgentPromptResponse(fetch.id, data),
                               !.entity = mapToAgentPrompt(AgentPromptResponse(fetch.id, data))]
    /\ UNCHANGED <<agentVars, healthVars, checkAllVars, mapping, metricsVars, concVars, handled, app, proc, hook>>

PromptNext ==
    \/ \E id \in {"agent-123", "agent-404"} : GetAgentPromptCalled(id)
    \* llmId: response_engine.llm_id of the fetched agent, "" when it has none
    \/ \E a \in HttpAnswers, llmId \in {"", "llm-1", "llm-2"} : AgentAnswers(a, llmId)
    \/ \E l \in HttpAnswers, data \in ApiLLMs : LlmAnswers(l, data)

PromptInit ==
    fetch = [pc |-> "idle", id |-> "", calls |-> <<>>,
             agent |-> OkAnswer, llmId |-> "", llm |-> OkAnswer, data |-> NoLLM,
             result |-> Return(Undefined),
             response |-> AgentPromptResponse("", NoLLM),
             entity |-> mapToAgentPrompt(AgentPromptResponse("", NoLLM))]

(***************************************************************************)
(* MetricsCollector and the metrics plugin                                 *)
(***************************************************************************)
\* Map.set(key, value)
MapSet(map, key, value) ==
    IF key \in DOMAIN map THEN [map EXCEPT ![key] = value] ELSE map @@ (key :> value)

\* the fields of a new MetricsCollector
NewMetricsCollector ==
    [requestCount |-> 0, errorCount |-> 0, responseTimeHistogram |-> <<>>,
     statusCodeCounts |-> <<>>, endpointMetrics |-> <<>>]

\* mutant: only the successful responses are counted as requests
recordRequest_successesOnly(m, method, url, statusCode, duration) ==
    LET pushed == Append(m.responseTimeHistogram, duration)
        endpoint == method \o " " \o url
        endpointData == IF endpoint \in DOMAIN m.endpointMetrics
                        THEN m.endpointMetrics[endpoint]
                        ELSE [count |-> 0, totalTime |-> 0, errors |-> 0]
    IN [requestCount |-> IF statusCode >= 400 THEN m.requestCount ELSE m.requestCount + 1,
        errorCount |-> IF statusCode >= 400 THEN m.errorCount + 1 ELSE m.errorCount,
        responseTimeHistogram |->
            IF Len(pushed) > 1000 THEN SubSeq(pushed, Len(pushed) - 999, Len(pushed))
            ELSE pushed,
        statusCodeCounts |->
            MapSet(m.statusCodeCounts, statusCode,
                   (IF statusCode \in DOMAIN m.statusCodeCounts
                    THEN m.statusCodeCounts[statusCode] ELSE 0) + 1),
        endpointMetrics |->
            MapSet(m.endpointMetrics, endpoint,
                   [count |-> endpointData.count + 1,
                    totalTime |-> endpointData.totalTime + duration,
                    errors |-> IF statusCode >= 400 THEN endpointData.errors + 1
                               ELSE endpointData.errors])]

\* mutant: the histogram keeps its first 1000 entries
recordRequest_keepFirst(m, method, url, statusCode, duration) ==
    LET pushed == Append(m.responseTimeHistogram, duration)
        endpoint == method \o " " \o url
        endpointData == IF endpoint \in DOMAIN m.endpointMetrics
                        THEN m.endpointMetrics[endpoint]
                        ELSE [count |-> 0, totalTime |-> 0, errors |-> 0]
    IN [requestCount |-> m.requestCount + 1,
        errorCount |-> IF statusCode >= 400 THEN m.errorCount + 1 ELSE m.errorCount,
        responseTimeHistogram |->
            IF Len(pushed) > 1000 THEN SubSeq(pushed, 1, 1000)
            ELSE pushed,
        statusCodeCounts |->
            MapSet(m.statusCodeCounts, statusCode,
                   (IF statusCode \in DOMAIN m.statusCodeCounts
                    THEN m.statusCodeCounts[statusCode] ELSE 0) + 1),
        endpointMetrics |->
            MapSet(m.endpointMetrics, endpoint,
                   [count |-> endpointData.count + 1,
                    totalTime |-> endpointData.totalTime + duration,
                    errors |-> IF statusCode >= 400 THEN endpointData.errors + 1
                               ELSE endpointData.errors])]

recordRequest(m, method, url, statusCode, duration) ==
    LET pushed == Append(m.responseTimeHistogram, duration)
        endpoint == method \o " " \o url
        endpointData == IF endpoint \in DOMAIN m.endpointMetrics
                        THEN m.endpointMetrics[endpoint]
                        ELSE [count |-> 0, totalTime |-> 0, errors |-> 0]
    IN [requestCount |-> m.requestCount + 1,
        errorCount |-> IF statusCode >= 400 THEN m.errorCount + 1 ELSE m.errorCount,
        responseTimeHistogram |->
            IF Len(pushed) > 1000 THEN SubSeq(pushed, Len(pushed) - 999, Len(pushed))
            ELSE pushed,
        statusCodeCounts |->
            MapSet(m.statusCodeCounts, statusCode,
                   (IF statusCode \in DOMAIN m.statusCodeCounts
                    THEN m.statusCodeCounts[statusCode] ELSE 0) + 1),
        endpointMetrics |->
            MapSet(m.endpointMetrics, endpoint,
                   [count |-> endpointData.count + 1,
                    totalTime |-> endpointData.totalTime + duration,
                    errors |-> IF statusCode >= 400 THEN endpointData.errors + 1
                               ELSE endpointData.errors])]

\* mutant: reset clears the two counters and the histogram, not the maps
reset_countersOnly(m) ==
    [m EXCEPT !.requestCount = 0, !.errorCount = 0, !.responseTimeHistogram = <<>>]

\* MetricsCollector.reset
reset(m) == NewMetricsCollector

\* getMetrics().requests, without the formatted errorRate
getMetricsRequests(m) == [total |-> m.requestCount, errors |-> m.errorCount]

\* onRequest hook of the request-logging plugin: request.metrics is set
RequestArrives(method, url) ==
    /\ arrived < MaxRequests
    /\ arrived' = arrived + 1
    /\ inflight' = inflight \cup {[id |-> arrived + 1, method |-> method, url |-> url]}
    /\ UNCHANGED <<metrics, recorded, resets, timings>>

\* onResponse hook of the metrics plugin for request r
ResponseSent(r, statusCode, duration) ==
    /\ r \in inflight
    /\ inflight' = inflight \ {r}
    /\ metrics' = recordRequest(metrics, r.method, r.url, statusCode, duration)
    /\ recorded' = recorded + 1
    /\ timings' = Append(timings, duration)
    /\ UNCHANGED <<arrived, resets>>

\* fastify.metrics.reset() is called
ResetCalled ==
    /\ resets < MaxResets
    /\ metrics' = reset(metrics)
    /\ resets' = resets + 1
    /\ timings' = <<>>
    /\ UNCHANGED <<inflight, arrived, recorded>>

MetricsNext ==
    /\ \/ \E url \in {"/health", "/api/v1/agents"} : RequestArrives("GET", url)
       \/ \E r \in inflight, statusCode \in {200, 404}, duration \in {5, 20} :
             ResponseSent(r, statusCode, duration)
       \/ ResetCalled
    /\ UNCHANGED <<agentVars, healthVars, checkAllVars, mapping, fetch, concVars, handled, app, proc, hook>>

MetricsInit ==
    /\ metrics = NewMetricsCollector
    /\ inflight = {}
    /\ arrived = 0
    /\ recorded = 0
    /\ resets = 0
    /\ timings = <<>>

\* the onResponse hook of the metrics plugin runs for one more request.  The
\* durations vary for the first Varied responses and for those after the
\* thousandth; the ones in between all took 5 ms.
ResponseRecorded(method, url, statusCode, duration) ==
    /\ recorded < MaxRecorded
    /\ recorded < Varied \/ recorded >= 1000 \/ duration = 5
    /\ metrics' = recordRequest(metrics, method, url, statusCode, duration)
    /\ arrived' = arrived + 1
    /\ recorded' = recorded + 1
    /\ timings' = Append(timings, duration)
    /\ UNCHANGED <<inflight, resets>>

HistogramNext ==
    /\ \E duration \in {5, 20} : ResponseRecorded("GET", "/health", 200, duration)
    /\ UNCHANGED <<agentVars, healthVars, checkAllVars, mapping, fetch, concVars, handled, app, proc, hook>>

(***************************************************************************)
(* Agent handlers with several requests in flight                          *)
(***************************************************************************)
\* mutant: request and reply kept where every invocation sees the latest ones
HandlerFrame_shared(r) == conc[repoLog[Len(repoLog)].request]

\* the call frame a continuation resumes in: every invocation of a handler
\* closes over its own request and reply
HandlerFrame(r) == conc[r]

IdleFrame ==
    [pc |-> "idle", handler |-> "none", params |-> [id |-> Undefined],
     outcome |-> NotSettled, replies |-> <<>>, promise |-> "pending"]

\* what the shared repository can answer a call for `id`
OutcomesFor(id) ==
    {Resolved(Obj("Agent", id)), Resolved(Null),
     Rejected(NewError("Error", "Network timeout")),
     Rejected(NewError("NotFoundError", "Agent " \o id \o " is gone")),
     Rejected(Str("String error"))}

\* request r arrives; its handler runs up to its await
ReceiveRequest(r, h, params) ==
    /\ conc[r].pc = "idle"
    /\ LET c == handlerPrologue(h, params)
           end == safeAsyncHandler(<<>>, c, DefaultErrorMessage(h))
       IN IF c.thrown
          THEN /\ conc' = [conc EXCEPT ![r] = [@ EXCEPT !.pc = "done", !.handler = h,
                                                       !.params = params,
                                                       !.replies = end.replies,
                                                       !.promise = end.promise]]
               /\ UNCHANGED repoLog
          ELSE /\ conc' = [conc EXCEPT ![r] = [@ EXCEPT !.pc = "awaiting", !.handler = h,
                                                       !.params = params]]
               /\ repoLog' = Append(repoLog, [method |-> h, id |-> c.value, request |-> r])

\* the repository promise of request r settles; its handler runs to its end
RequestResumes(r, o) ==
    /\ conc[r].pc = "awaiting"
    /\ LET frame == HandlerFrame(r)
           e == handlerEpilogue(frame.handler, frame.params.id.v, o)
           end == safeAsyncHandler(e.sent, e.completion,
                                   DefaultErrorMessage(frame.handler))
       IN conc' = [conc EXCEPT ![r] = [@ EXCEPT !.pc = "done", !.outcome = o,
                                               !.replies = end.replies,
                                               !.promise = end.promise]]
    /\ UNCHANGED repoLog

ConcurrentNext ==
    /\ \/ \E r \in 1..MaxInFlight, h \in {"getAgent", "getAgentPrompt"},
             id \in {Str("agent-1"), Str("agent-2"), Str("   ")} :
                ReceiveRequest(r, h, [id |-> id])
       \/ \E r \in 1..MaxInFlight : ReceiveRequest(r, "listAgents", [id |-> Undefined])
       \/ \E r \in 1..MaxInFlight :
             \E i \in 1..Len(repoLog) :
                /\ repoLog[i].request = r
                /\ \E o \in OutcomesFor(repoLog[i].id) : RequestResumes(r, o)
    /\ UNCHANGED <<agentVars, healthVars, checkAllVars, mapping, fetch, metricsVars, handled, app, proc, hook>>

ConcurrentInit ==
    /\ conc = [r \in 1..MaxInFlight |-> IdleFrame]
    /\ repoLog = <<>>

(***************************************************************************)
(* The registered errorHandler                                             *)
(***************************************************************************)
\* statusCode of the BaseError subclasses
BaseErrorStatusCode(cls) ==
    CASE cls = "ValidationError" -> 400
      [] cls = "NotFoundError" -> 404
      [] cls = "ExternalServiceError" -> 502
      [] cls = "ConfigurationError" -> 500

\* errorHandler(error, request, reply): the status and body it sends; the
\* body's error object has exactly the keys the code writes.  `context` is
\* error.context (undefined when the error was built without one)
errorHandler(error, context) ==
    IF error.cls \in {"ValidationError", "NotFoundError",
                     "ExternalServiceError", "ConfigurationError"}
    THEN [status |-> BaseErrorStatusCode(error.cls),
          body |-> [error |->
              IF Truthy(context)
              THEN [message |-> Str(error.v), code |-> Str(error.cls), context |-> context]
              ELSE [message |-> Str(error.v), code |-> Str(error.cls)]]]
    ELSE IF error.cls = "ZodError"
    THEN [status |-> 400,
          body |-> [error |-> [message |-> Str("Validation failed"),
                               code |-> Str("VALIDATION_ERROR"),
                               context |-> Obj("Object", "issues")]]]
    ELSE [status |-> 500,
          body |-> [error |-> [message |-> Str("Internal server error"),
                               code |-> Str("INTERNAL_ERROR")]]]

\* fastify calls the error handler with an error a route threw
ErrorHandled(error, context) ==
    /\ handled.fn = "none"
    /\ handled' = [fn |-> "errorHandler", error |-> error, context |-> context,
                   reply |-> errorHandler(error, context)]
    /\ UNCHANGED <<agentVars, healthVars, checkAllVars, mapping, fetch, metricsVars,
                   concVars, app, proc, hook>>

ErrorHandlerNext ==
    \E cls \in {"ValidationError", "NotFoundError", "ExternalServiceError",
                "ConfigurationError", "ZodError", "Error", "TypeError"},
       message \in {"", "Agent not found", "Agent ID is required", "Network timeout",
                    "Retell AI API error: Request failed with status code 500",
                    "Cannot read properties of undefined", "Validation failed",
                    "RETELL_API_KEY is required"},
       context \in {Undefined, Obj("Object", "agentId")} :
          ErrorHandled(NewError(cls, message), context)

(***************************************************************************)
(* createApp: the plugins and routes registered at start-up                *)
(* (src/unnamed/part_005:65-201).  app.routes is the route table of the    *)
(* fastify instance, in registration order.  The plugins wrapped with      *)
(* fastify-plugin add their routes to the instance that registers them.    *)
(***************************************************************************)
MonitoringFlags == {Undefined, Bool("true"), Bool("false")}

\* part_005:69-74, the default of the monitoring option
DefaultMonitoring ==
    [requestLogging |-> Bool("true"), metrics |-> Bool("true"),
     rateLimit |-> Bool("true"), enhancedHealth |-> Bool("true")]

\* the destructuring default applies when options.monitoring is undefined
MonitoringOf(options) ==
    IF options.hasMonitoring THEN options.monitoring ELSE DefaultMonitoring

RouteDeclared(routes, method, path) ==
    \E i \in 1..Len(routes) : routes[i].method = method /\ routes[i].path = path

\* fastify.get(path, handler): a second declaration of the same method and
\* path throws FST_ERR_DUPLICATED_ROUTE
fastifyGet(routes, path, owner) ==
    IF RouteDeclared(routes, "GET", path)
    THEN Throw(NewError("FastifyError", "FST_ERR_DUPLICATED_ROUTE"))
    ELSE Return(Append(routes, [method |-> "GET", path |-> path, owner |-> owner]))

\* the routes of one plugin or route group, declared in order; the first
\* throw ends the group
RECURSIVE declareAll(_, _, _)
declareAll(routes, paths, owner) ==
    IF paths = <<>> THEN Return(routes)
    ELSE LET first == fastifyGet(routes, Head(paths), owner)
         IN  IF first.thrown THEN first
             ELSE declareAll(first.value, Tail(paths), owner)

\* part_012:120
metricsMiddlewareRoutes == <<"/metrics">>
\* enhanced-health.middleware.ts:165, 229, 237
enhancedHealthMiddlewareRoutes == <<"/health", "/health/live", "/health/ready">>
\* agent.routes.ts:8-101
agentRoutes == <<"/api/v1/agents", "/api/v1/agents/:id", "/api/v1/agents/:id/prompt">>
\* part_013:9-22 with HEALTH_PATHS of part_009:4-8
healthRoutes == <<"/health", "/readiness", "/liveness">>

AppInit ==
    app = [pc |-> "none", hasMonitoring |-> FALSE, monitoring |-> DefaultMonitoring,
           development |-> FALSE, plugins |-> <<>>, routes |-> <<>>,
           promise |-> NotSettled]

AppFrame ==
    UNCHANGED <<agentVars, healthVars, checkAllVars, mapping, fetch, metricsVars,
                concVars, handled, proc, hook>>

\* one step of createApp: its completion moves on to the next step or
\* rejects the promise of createApp
AppStep(done, plugins, next) ==
    IF done.thrown
    THEN app' = [app EXCEPT !.pc = "rejected", !.plugins = plugins,
                            !.promise = Rejected(done.value)]
    ELSE app' = [app EXCEPT !.pc = next, !.plugins = plugins, !.routes = done.value]

\* part_005:65-98
CreateAppCalled(options, development) ==
    /\ app.pc = "none"
    /\ app' = [app EXCEPT !.pc = "registerMonitoringPlugins",
                          !.hasMonitoring = options.hasMonitoring,
                          !.monitoring = MonitoringOf(options),
                          !.development = development]
    /\ AppFrame

\* part_005:117-135
registerMonitoringPlugins ==
    /\ app.pc = "registerMonitoringPlugins"
    /\ LET m == app.monitoring
           p1 == IF m.requestLogging # Bool("false")
                 THEN Append(app.plugins, "requestLoggingMiddleware") ELSE app.plugins
           p2 == IF m.metrics # Bool("false")
                 THEN Append(p1, "metricsMiddleware") ELSE p1
           r2 == IF m.metrics # Bool("false")
                 THEN declareAll(app.routes, metricsMiddlewareRoutes, "metricsMiddleware")
                 ELSE Return(app.routes)
           p3 == IF ~r2.thrown /\ m.enhancedHealth # Bool("false")
                 THEN Append(p2, "enhancedHealthMiddleware") ELSE p2
           r3 == IF ~r2.thrown /\ m.enhancedHealth # Bool("false")
                 THEN declareAll(r2.value, enhancedHealthMiddlewareRoutes,
                                 "enhancedHealthMiddleware")
                 ELSE r2
       IN  AppStep(r3, p3, "registerSecurityPlugins")
    /\ AppFrame

\* part_005:140-151; the parameter default makes an undefined rateLimit true
registerSecurityPlugins ==
    /\ app.pc = "registerSecurityPlugins"
    /\ LET rateLimit == IF app.monitoring.rateLimit = Undefined THEN Bool("true")
                        ELSE app.monitoring.rateLimit
           p1 == IF Truthy(rateLimit) /\ ~app.development
                 THEN Append(app.plugins, "fastifyRateLimit") ELSE app.plugins
       IN  AppStep(Return(app.routes), p1 \o <<"fastifyHelmet", "fastifyCors">>,
                   "registerDocumentationPlugins")
    /\ AppFrame

\* part_005:156-164
registerDocumentationPlugins ==
    /\ app.pc = "registerDocumentationPlugins"
    /\ LET p1 == Append(app.plugins, "fastifySwagger")
           p2 == IF app.development THEN Append(p1, "fastifySwaggerUI") ELSE p1
       IN  AppStep(Return(app.routes), p2, "registerApplicationRoutes")
    /\ AppFrame

\* part_005:169-180, after registerErrorHandler and dependencyFactory
\* (part_005:103-106), which declare no route
registerApplicationRoutes ==
    /\ app.pc = "registerApplicationRoutes"
    /\ LET r1 == declareAll(app.routes, agentRoutes, "agentRoutes")
           r2 == IF r1.thrown THEN r1
                 ELSE declareAll(r1.value, healthRoutes, "healthRoutes")
       IN  AppStep(r2, app.plugins, "registerRootRoute")
    /\ AppFrame

\* part_005:185-201 and the return of createApp (part_005:111)
registerRootRoute ==
    /\ app.pc = "registerRootRoute"
    /\ LET r1 == fastifyGet(app.routes, "/", "registerRootRoute")
       IN  IF r1.thrown
           THEN app' = [app EXCEPT !.pc = "rejected", !.promise = Rejected(r1.value)]
           ELSE app' = [app EXCEPT !.pc = "resolved", !.routes = r1.value,
                                   !.promise = Resolved(Obj("FastifyInstance", "fastify"))]
    /\ AppFrame

AppNext ==
    \/ \E hasMonitoring \in BOOLEAN, development \in BOOLEAN,
          monitoring \in [requestLogging : MonitoringFlags, metrics : MonitoringFlags,
                          rateLimit : MonitoringFlags, enhancedHealth : MonitoringFlags] :
             CreateAppCalled([hasMonitoring |-> hasMonitoring, monitoring |-> monitoring],
                             development)
    \/ registerMonitoringPlugins
    \/ registerSecurityPlugins
    \/ registerDocumentationPlugins
    \/ registerApplicationRoutes
    \/ registerRootRoute

(***************************************************************************)
(* The server process and its shutdown.  setupGracefulShutdown             *)
(* (controller.constants.ts:103-161) installs one listener per signal and  *)
(* for uncaughtException and unhandledRejection; the entry point           *)
(* (backend/src/index.ts) installs its own listeners before and after      *)
(* startServer (part_005:218-265).  Listeners of one event run in the      *)
(* order of their registration; process.exit ends the process at once.     *)
(* The continuation of an await runs before the next event is delivered,   *)
(* so a settlement and the continuation it resumes are one step.           *)
(***************************************************************************)
\* controller.constants.ts:94-98, DEFAULT_OPTIONS
DEFAULT_TIMEOUT == 10000
\* part_005:230, the timeout startServer passes
API_SHUTDOWN_TIMEOUT == 15000
DefaultSignals == {"SIGTERM", "SIGINT", "SIGUSR2"}
ProcessErrors == {"uncaughtException", "unhandledRejection"}
\* index.ts:39-40
MainSignals == {"SIGTERM", "SIGINT"}

\* process.exit(code); by names the caller
processExit(p, code, by) ==
    [p EXCEPT !.exited = TRUE, !.exitCode = code, !.exitBy = by]

\* app.close(): the first call starts closing the server, every call
\* returns a promise that settles when the server has closed
appClose(p) ==
    [p EXCEPT !.closeCalls = @ + 1,
              !.closing = IF @ = "open" THEN "closing" ELSE @]

\* controller.constants.ts:110-149 without the guard on isShuttingDown
shutdown_noGuard(p, signal) ==
    LET q == [p EXCEPT !.isShuttingDown = TRUE, !.timer = "armed",
                       !.onShutdownCalls = @ + 1]
    IN  IF p.onShutdown = "throws"
        THEN processExit([q EXCEPT !.timer = "cleared", !.cleanup = "failed",
                                   !.shutdownPc = "done"],
                         1, "setupGracefulShutdown")
        ELSE [q EXCEPT !.cleanup = "running", !.shutdownPc = "awaitOnShutdown"]

\* controller.constants.ts:110-125: shutdown(signal) up to its first await.
\* config.onShutdown() is called inside the try block: when it throws, the
\* catch block clears the timer and exits with 1 (133-137).
shutdown(p, signal) ==
    IF p.isShuttingDown
    THEN processExit(p, 1, "setupGracefulShutdown")
    ELSE LET q == [p EXCEPT !.isShuttingDown = TRUE, !.timer = "armed",
                            !.onShutdownCalls = @ + 1]
         IN  IF p.onShutdown = "throws"
             THEN processExit([q EXCEPT !.timer = "cleared", !.cleanup = "failed",
                                        !.shutdownPc = "done"],
                              1, "setupGracefulShutdown")
             ELSE [q EXCEPT !.cleanup = "running", !.shutdownPc = "awaitOnShutdown"]

\* index.ts:18-22: the handler returned by gracefulShutdown(app) up to its
\* await of app.close()
gracefulShutdown(p, signal) ==
    [appClose(p) EXCEPT !.mainAwaiting = @ + 1]

\* controller.constants.ts:126-129: shutdown resumes after onShutdown and
\* calls app.close()
afterOnShutdown(p) ==
    [appClose(p) EXCEPT !.cleanup = "completed", !.shutdownPc = "awaitClose"]

\* an onShutdown that returns nothing, or an async one that awaits nothing,
\* lets shutdown resume as soon as the listeners of the event have returned
resume(p) ==
    IF ~p.exited /\ p.shutdownPc = "awaitOnShutdown"
                /\ p.onShutdown \in {"returnsNothing", "startServer"}
    THEN afterOnShutdown(p) ELSE p

\* the listeners of one event, in the order of their registration:
\* index.ts:5-14, controller.constants.ts:141-160, index.ts:39-40
emit(p, signal) ==
    LET p1 == IF p.entry /\ signal \in ProcessErrors
              THEN processExit(p, 1, "index") ELSE p
        p2 == IF ~p1.exited /\ signal \in DefaultSignals \cup ProcessErrors
              THEN shutdown(p1, signal) ELSE p1
        p3 == IF ~p2.exited /\ p2.mainHandlers /\ signal \in MainSignals
              THEN gracefulShutdown(p2, signal) ELSE p2
    IN  resume([p3 EXCEPT !.received = Append(@, signal)])

ProcInit ==
    proc = [stage |-> "none", entry |-> FALSE, mainHandlers |-> FALSE,
            onShutdown |-> "returnsNothing", isShuttingDown |-> FALSE, timer |-> "none",
            shutdownPc |-> "idle", cleanup |-> "notStarted", closing |-> "open",
            onShutdownCalls |-> 0, closeCalls |-> 0, mainAwaiting |-> 0,
            timeout |-> DEFAULT_TIMEOUT, elapsed |-> 0,
            received |-> <<>>, exited |-> FALSE, exitCode |-> 0, exitBy |-> ""]

ProcFrame ==
    UNCHANGED <<agentVars, healthVars, checkAllVars, mapping, fetch, metricsVars,
                concVars, handled, app, hook>>

\* controller.constants.ts:103-161: the listeners are installed; onShutdown
\* is the option's function, which throws, returns a promise or returns
\* nothing
SetupGracefulShutdownCalled(onShutdown, timeout) ==
    /\ proc.stage = "none"
    /\ proc' = [proc EXCEPT !.stage = "started", !.onShutdown = onShutdown,
                            !.timeout = timeout]
    /\ ProcFrame

\* index.ts:5-14, 33-35 and part_005:218-247: the entry point installs its
\* error listeners and awaits startServer, which installs the listeners of
\* setupGracefulShutdown and awaits app.listen.  No retellClient is
\* decorated on the app, so the onShutdown of startServer awaits nothing.
StartServerCalled ==
    /\ proc.stage = "none"
    /\ proc' = [proc EXCEPT !.stage = "listening", !.entry = TRUE,
                            !.onShutdown = "startServer",
                            !.timeout = API_SHUTDOWN_TIMEOUT]
    /\ ProcFrame

\* part_005:244-264 and index.ts:35-46: main installs its handlers once
\* startServer has resolved, and exits with 1 when it has rejected
ListenSettles(settled) ==
    /\ proc.stage = "listening" /\ ~proc.exited
    /\ proc' = IF settled = "resolved"
               THEN [proc EXCEPT !.stage = "started", !.mainHandlers = TRUE]
               ELSE processExit([proc EXCEPT !.stage = "failed"], 1, "main")
    /\ ProcFrame

SignalArrives(signal) ==
    /\ proc.stage \in {"listening", "started"} /\ ~proc.exited
    /\ Len(proc.received) < MaxSignals
    /\ proc' = emit(proc, signal)
    /\ ProcFrame

\* controller.constants.ts:126-137: the promise returned by onShutdown
\* settles and shutdown goes on to app.close(), or to the catch block
OnShutdownSettles(settled) ==
    /\ proc.shutdownPc = "awaitOnShutdown" /\ ~proc.exited
    /\ proc' = IF settled = "resolved"
               THEN afterOnShutdown(proc)
               ELSE processExit([proc EXCEPT !.cleanup = "failed", !.timer = "cleared",
                                             !.shutdownPc = "done"],
                                1, "setupGracefulShutdown")
    /\ ProcFrame

\* the server has closed or failed to close: the sequences awaiting
\* app.close() resume, and the first to resume ends the process
\* (controller.constants.ts:129-137, index.ts:22-28)
CloseSettles(settled, first) ==
    /\ proc.closing = "closing" /\ ~proc.exited
    /\ \/ first = "setupGracefulShutdown" /\ proc.shutdownPc = "awaitClose"
       \/ first = "main" /\ proc.mainAwaiting > 0
    /\ LET code == IF settled = "resolved" THEN 0 ELSE 1
           p == [proc EXCEPT !.closing = IF settled = "resolved" THEN "closed" ELSE "failed"]
       IN  proc' = IF first = "setupGracefulShutdown"
                   THEN processExit([p EXCEPT !.timer = "cleared", !.shutdownPc = "done"],
                                    code, first)
                   ELSE processExit(p, code, first)
    /\ ProcFrame

\* time passes while the shutdown timer is armed; proc.elapsed is the time
\* since setTimeout (controller.constants.ts:118), and the timer's callback
\* runs once config.timeout has elapsed
Tick ==
    /\ proc.timer = "armed" /\ ~proc.exited
    /\ proc.elapsed < proc.timeout
    /\ proc' = [proc EXCEPT !.elapsed = @ + TickMs]
    /\ ProcFrame

\* controller.constants.ts:118-121
ShutdownTimerFires ==
    /\ proc.timer = "armed" /\ ~proc.exited
    /\ proc.elapsed >= proc.timeout
    /\ proc' = processExit([proc EXCEPT !.timer = "fired"], 1, "shutdownTimeout")
    /\ ProcFrame

ProcessEvents ==
    \/ \E signal \in DefaultSignals \cup ProcessErrors : SignalArrives(signal)
    \/ \E settled \in {"resolved", "rejected"}, first \in {"setupGracefulShutdown", "main"} :
          CloseSettles(settled, first)
    \/ Tick
    \/ ShutdownTimerFires

ShutdownNext ==
    \/ \E onShutdown \in {"throws", "returnsPromise", "returnsNothing"},
          timeout \in {DEFAULT_TIMEOUT, API_SHUTDOWN_TIMEOUT} :
             SetupGracefulShutdownCalled(onShutdown, timeout)
    \/ \E settled \in {"resolved", "rejected"} : OnShutdownSettles(settled)
    \/ ProcessEvents

EntryNext ==
    \/ StartServerCalled
    \/ \E settled \in {"resolved", "rejected"} : ListenSettles(settled)
    \/ ProcessEvents

(***************************************************************************)
(* The useApi hook of the frontend (src/unnamed/part_018:15-57).           *)
(* hook.fetches are the calls of fetchData in the order they started, and   *)
(* hook.callers who made them: the effect or the component, through refetch.*)
(***************************************************************************)
\* part_018:19-23, the state given to useState
UseApiInitialState == [data |-> Null, loading |-> TRUE, error |-> Null]

HookInit ==
    hook = [mounted |-> FALSE, state |-> UseApiInitialState, fetches |-> <<>>,
            callers |-> <<>>]

HookFrame ==
    UNCHANGED <<agentVars, healthVars, checkAllVars, mapping, fetch, metricsVars,
                concVars, handled, app, proc>>

\* part_018:25-28: fetchData up to its await of apiFunction()
fetchData(h) ==
    [h EXCEPT !.state = [@ EXCEPT !.loading = TRUE, !.error = Null],
              !.fetches = Append(@, NotSettled)]

\* part_018:29-33: the state set when apiFunction() has resolved
fetchDataResolved(result) == [data |-> result, loading |-> FALSE, error |-> Null]

\* part_018:34-44: the state set when apiFunction() has rejected
fetchDataRejected(error) ==
    [data |-> Null, loading |-> FALSE,
     error |-> IF error.cls = "ApiError" THEN Str(error.v)
               ELSE Str("An unexpected error occurred")]

\* part_018:47-50: the effect runs after the first render
Mounted ==
    /\ ~hook.mounted
    /\ hook' = [fetchData(hook) EXCEPT !.mounted = TRUE,
                                       !.callers = Append(@, "useEffect")]
    /\ HookFrame

\* part_018:47-50: a dependency changed and the effect runs again
DependenciesChanged ==
    /\ hook.mounted /\ Len(hook.fetches) < MaxFetches
    /\ hook' = [fetchData(hook) EXCEPT !.callers = Append(@, "useEffect")]
    /\ HookFrame

\* part_018:52-55: the component calls refetch()
Refetch ==
    /\ hook.mounted /\ Len(hook.fetches) < MaxFetches
    /\ hook' = [fetchData(hook) EXCEPT !.callers = Append(@, "refetch")]
    /\ HookFrame

\* the promise of the i-th apiFunction() call settles and fetchData resumes
FetchSettles(i, settled) ==
    /\ hook.fetches[i] = NotSettled
    /\ hook' = [hook EXCEPT !.fetches[i] = settled,
                            !.state = IF settled.settled = "resolved"
                                      THEN fetchDataResolved(settled.value)
                                      ELSE fetchDataRejected(settled.value)]
    /\ HookFrame

HookNext ==
    \/ Mounted
    \/ DependenciesChanged
    \/ Refetch
    \/ \E i \in 1..Len(hook.fetches) :
          \E settled \in {Resolved(Obj("Array", "agents-1")), Resolved(Obj("Array", "agents-2")),
                          Rejected(NewError("ApiError", "Network error")),
                          Rejected(NewError("TypeError", "Failed to fetch"))} :
             FetchSettles(i, settled)

Init ==
    /\ AgentInit /\ HealthInit /\ CheckAllInit /\ MapperInit /\ PromptInit
    /\ MetricsInit /\ ConcurrentInit
    /\ handled = [fn |-> "none"]
    /\ AppInit
    /\ ProcInit
    /\ HookInit

\* the agent endpoints
Spec == Init /\ [][AgentNext]_vars

\* the health endpoints
SpecHealth == Init /\ [][HealthNext]_vars

\* one call of checkAll and the timers and probes it leaves behind
SpecCheckAll == Init /\ [][CheckAllNext]_vars

\* the repository's mapping functions applied to upstream data
SpecMapper == Init /\ [][MapperNext]_vars

\* one prompt retrieval of the Retell client
SpecPrompt == Init /\ [][PromptNext]_vars

\* requests in flight recorded by the metrics plugin
SpecMetrics == Init /\ [][MetricsNext]_vars

\* a thousand and more responses recorded by the metrics plugin
SpecHistogram == Init /\ [][HistogramNext]_vars

\* agent requests in flight together
SpecConcurrent == Init /\ [][ConcurrentNext]_vars

\* errors reaching the registered error handler
SpecErrorHandler == Init /\ [][ErrorHandlerNext]_vars

\* one start-up of the application
SpecApp == Init /\ [][AppNext]_vars

\* a process with the listeners of setupGracefulShutdown
SpecShutdown == Init /\ [][ShutdownNext]_vars

\* time passes, and the event loop runs the callback of an armed timer whose
\* delay has elapsed unless the process has exited or the timer was cleared
SpecShutdownFair == SpecShutdown /\ WF_vars(Tick) /\ WF_vars(ShutdownTimerFires)

\* the process started by the backend entry point
SpecEntry == Init /\ [][EntryNext]_vars

\* one mounted useApi hook
SpecHook == Init /\ [][HookNext]_vars

(***************************************************************************)
(* Properties of the agent handlers (checked under Spec)                   *)
(***************************************************************************)
ValidationKeywords == {"Invalid agent ID", "validation", "required"}
AuthorizationKeywords == {"unauthorized", "forbidden", "authentication"}
ConnectivityKeywords == {"timeout", "connection", "network"}
HasKeyword(message, keywords) == \E k \in keywords : Includes(message, k)

\* the request ended after its repository call was rejected with an Error
RejectedWithError ==
    /\ pc = "done"
    /\ outcome.settled = "rejected"
    /\ outcome.value.cls \in ErrorClasses

\* C1 as stated: the classifier is a first-match chain in the order
\* not-found 404, validation 400, authorization 401, connectivity 502,
\* default 500, so an earlier family wins over a later one.
C1_FirstMatchOrder ==
    RejectedWithError =>
        /\ Len(replies) = 1
        /\ replies[1].status =
             IF outcome.value.cls = "NotFoundError" THEN 404
             ELSE IF HasKeyword(outcome.value.v, ValidationKeywords) THEN 400
             ELSE IF HasKeyword(outcome.value.v, AuthorizationKeywords) THEN 401
             ELSE IF HasKeyword(outcome.value.v, ConnectivityKeywords) THEN 502
             ELSE 500

\* C1 amended: the chain is not-found 404, validation 400, connectivity 502,
\* authorization 401, default 500; connectivity keywords win over
\* authorization keywords.
C1_FirstMatchOrderAmended ==
    RejectedWithError =>
        /\ Len(replies) = 1
        /\ replies[1].status =
             IF outcome.value.cls = "NotFoundError" THEN 404
             ELSE IF HasKeyword(outcome.value.v, ValidationKeywords) THEN 400
             ELSE IF HasKeyword(outcome.value.v, ConnectivityKeywords) THEN 502
             ELSE IF HasKeyword(outcome.value.v, AuthorizationKeywords) THEN 401
             ELSE 500

\* a message with an authorization and a connectivity keyword was classified
C1_Witness ==
    /\ RejectedWithError
    /\ outcome.value.cls = "Error"
    /\ Includes(outcome.value.v, "unauthorized")
    /\ Includes(outcome.value.v, "timeout")
    /\ replies[1].status = 502

\* C2 as stated: a repository Error is answered 401 for 'Unauthorized
\* access', 502 for 'Network timeout', 400 for 'Agent name is required' and
\* 500 for an empty message.
C2_ExampleMessages ==
    (RejectedWithError /\ outcome.value.cls = "Error") =>
        /\ outcome.value.v = "Unauthorized access" => replies[1].status = 401
        /\ outcome.value.v = "Network timeout" => replies[1].status = 502
        /\ outcome.value.v = "Agent name is required" => replies[1].status = 400
        /\ outcome.value.v = "" => replies[1].status = 500

\* C2 amended: the authorization keyword is matched in lower case only:
\* 'unauthorized access to agent' is answered 401 and 'Unauthorized access'
\* 500; 'Network timeout' 502, 'Agent name is required' 400, '' 500.
C2_ExampleMessagesAmended ==
    (RejectedWithError /\ outcome.value.cls = "Error") =>
        /\ outcome.value.v = "unauthorized access to agent" => replies[1].status = 401
        /\ outcome.value.v = "Unauthorized access" => replies[1].status = 500
        /\ outcome.value.v = "Network timeout" => replies[1].status = 502
        /\ outcome.value.v = "Agent name is required" => replies[1].status = 400
        /\ outcome.value.v = "" => replies[1].status = 500

\* the capitalised authorization message was answered
C2_Witness ==
    /\ RejectedWithError
    /\ outcome.value = NewError("Error", "Unauthorized access")
    /\ replies[1].status = 500

\* the fixed message of each handler, as the claim lists them
GenericMessage ==
    [listAgents |-> "Failed to retrieve agents",
     getAgent |-> "Failed to retrieve agent",
     getAgentPrompt |-> "Failed to retrieve agent prompt",
     getAgentVersions |-> "Failed to retrieve agent versions"]

\* C3: a caught failure is answered {data: null, message}; the message is
\* the Error's own message verbatim (also when empty), and the handler's
\* fixed generic message with status 500 when the thrown value is no Error.
C3_ErrorBody ==
    /\ (pc = "done" /\ outcome.settled = "rejected") =>
          /\ Len(replies) = 1
          /\ replies[1].body.data = Null
          /\ IF outcome.value.cls \in ErrorClasses
             THEN replies[1].body.message = outcome.value.v
             ELSE /\ replies[1].body.message = GenericMessage[request.handler]
                  /\ replies[1].status = 500
    \* failures raised by the handler itself (validation, not found)
    /\ (pc = "done" /\ outcome.settled # "rejected" /\ replies[1].status # 200) =>
          /\ replies[1].body.data = Null
          /\ \/ replies[1].body.message = "Agent ID is required"
             \/ Includes(replies[1].body.message, "Invalid agent ID: ")
             \/ Includes(replies[1].body.message, " not found")

\* a thrown string was answered with the generic message
C3_Witness ==
    /\ pc = "done"
    /\ request.handler = "getAgentPrompt"
    /\ outcome = Rejected(Str("String error"))
    /\ replies[1].body = [data |-> Null, message |-> "Failed to retrieve agent prompt"]
    /\ replies[1].status = 500

\* C4: getAgent / getAgentPrompt answer every falsy repository result with
\* 404 and {data: null, message: 'Agent with ID {id} not found'} (resp.
\* 'Agent prompt for ID {id} not found').
C4_FalsyIsNotFound ==
    (/\ pc = "done"
     /\ request.handler \in {"getAgent", "getAgentPrompt"}
     /\ outcome.settled = "resolved"
     /\ outcome.value \in {Null, Undefined, Bool("false"), Num("0"), Str(""), Num("NaN")})
    => replies =
         <<[status |-> 404,
            body |-> [data |-> Null,
                      message |->
                        IF request.handler = "getAgent"
                        THEN "Agent with ID " \o request.params.id.v \o " not found"
                        ELSE "Agent prompt for ID " \o request.params.id.v \o " not found"]]>>

\* the repository resolved with NaN and the request was answered 404
C4_Witness ==
    /\ pc = "done"
    /\ request = [handler |-> "getAgent", params |-> [id |-> Str("agent-123")]]
    /\ outcome = Resolved(Num("NaN"))
    /\ replies[1].status = 404
    /\ replies[1].body.message = "Agent with ID agent-123 not found"

\* an id parameter that is missing, null, undefined, empty or whitespace only
BlankIdParam(id) ==
    \/ id.t # "string"
    \/ \A i \in 1..Len(id.v) : SubSeq(id.v, i, i) \in {" ", "\t", "\n"}

\* C5: getAgent, getAgentPrompt and getAgentVersions answer a request whose
\* id is empty, whitespace only, missing, null or undefined with 400, and
\* the repository is never invoked for that request.
C5_BlankIdRejectedBeforeRepository ==
    (/\ request.handler \in {"getAgent", "getAgentPrompt", "getAgentVersions"}
     /\ BlankIdParam(request.params.id))
    => /\ pc = "done"
       /\ repoCalls = <<>>
       /\ outcome.settled = "none"
       /\ Len(replies) = 1
       /\ replies[1].status = 400
       /\ replies[1].body.data = Null

\* a tab-only id was rejected by the versions handler
C5_Witness ==
    /\ pc = "done"
    /\ request = [handler |-> "getAgentVersions", params |-> [id |-> Str("\t\t\t")]]
    /\ repoCalls = <<>>
    /\ replies[1].status = 400

\* C6: whatever the repository does, the handler's promise resolves and
\* never rejects, and exactly one response is sent for the request.
C6_OneResponseNeverRejects ==
    /\ promise # "rejected"
    /\ Len(replies) <= 1
    /\ pc = "done" <=> promise = "resolved"
    /\ pc = "done" <=> Len(replies) = 1
    /\ pc = "done" => replies[1].status \in {200, 400, 401, 404, 500, 502}

\* a repository rejection with a non-Error value ended in one response
C6_Witness ==
    /\ pc = "done"
    /\ outcome = Rejected(Undefined)
    /\ promise = "resolved"
    /\ Len(replies) = 1

\* C7 as stated: an upstream failure that reaches the handlers as an
\* ExternalServiceError is answered 502 whatever its message is.
C7_ExternalServiceErrorIs502 ==
    (RejectedWithError /\ upstream # <<>> /\ outcome.value.cls = "ExternalServiceError")
    => replies[1].status = 502

\* some GET of the request was answered by the upstream API with HTTP 404
UpstreamAnswered404 ==
    \E i \in 1..Len(upstream) :
        upstream[i].answer.kind = "status" /\ upstream[i].answer.status = 404

\* C8 as stated: the Retell repository's getAgent / getAgentPrompt return
\* null if and only if the upstream API answered with HTTP 404, and then the
\* request is answered 404; every other failure is rethrown.
C8_NullIffUpstream404 ==
    (/\ pc = "done"
     /\ upstream # <<>>
     /\ request.handler \in {"getAgent", "getAgentPrompt"})
    => /\ (outcome = Resolved(Null)) <=> UpstreamAnswered404
       /\ UpstreamAnswered404 => replies[1].status = 404

(***************************************************************************)
(* Properties of the health endpoints (checked under SpecHealth)           *)
(***************************************************************************)
\* C9: simple getHealth: the status field is 'unhealthy' exactly when some
\* service is 'down' ('healthy' for an empty map), the services map is
\* returned unchanged, and the HTTP status is 200 either way.
C9_SimpleHealth ==
    (hpc = "done" /\ hreq = "getHealth" /\ hcheck.settled = "resolved") =>
        /\ hreply.status = 200
        /\ hreply.body.services = hcheck.value
        /\ hreply.body.status \in {"healthy", "unhealthy"}
        /\ hreply.body.status = "unhealthy"
             <=> "down" \in {hcheck.value[n] : n \in DOMAIN hcheck.value}

\* one service up, one down: answered 200 with status 'unhealthy'
C9_Witness ==
    /\ hpc = "done"
    /\ hreq = "getHealth"
    /\ hcheck = Resolved([n \in {"retell-ai", "database"} |->
                             IF n = "database" THEN "down" ELSE "up"])
    /\ hreply.status = 200
    /\ hreply.body.status = "unhealthy"

\* the statuses checkAll recorded, one per probe
RecordedStatuses == {results[i].result.status : i \in 1..Len(results)}

\* C10: enhanced GET /health: overall 'unhealthy' if any probe is unhealthy,
\* 'degraded' if none is unhealthy and one is degraded, 'healthy' otherwise
\* (also with no probes); HTTP 503 exactly for 'unhealthy', else 200.
C10_EnhancedHealth ==
    (hpc = "done" /\ hreq = "enhancedHealth") =>
        /\ Len(results) = Len(probes)
        /\ hreply.body.dependencies = results
        /\ "unhealthy" \in RecordedStatuses => hreply.body.status = "unhealthy"
        /\ ("unhealthy" \notin RecordedStatuses /\ "degraded" \in RecordedStatuses)
             => hreply.body.status = "degraded"
        /\ RecordedStatuses \subseteq {"healthy"} => hreply.body.status = "healthy"
        /\ hreply.status = 503 <=> hreply.body.status = "unhealthy"
        /\ hreply.status \in {200, 503}

\* an unhealthy and a degraded probe: answered 503 'unhealthy'
C10_Witness ==
    /\ hpc = "done"
    /\ hreq = "enhancedHealth"
    /\ RecordedStatuses = {"unhealthy", "degraded"}
    /\ hreply.status = 503
    /\ hreply.body.status = "unhealthy"

(***************************************************************************)
(* Properties of checkAll (checked under SpecCheckAll)                     *)
(***************************************************************************)
\* checker i throws, rejects, or has not settled when its timer fires
ProbeFails(i) ==
    \/ checkers[i].kind \in {"throw", "reject", "never"}
    \/ checkers[i].after >= HEALTH_CHECK_TIMEOUT_MS

\* C11: when checkAll has returned, every registered probe has exactly one
\* entry, in registration order; a probe that threw, rejected or had not
\* settled when its timer fired is recorded unhealthy with responseTime 5000,
\* also when it failed at once; the promise of checkAll is never rejected.
C11_OneEntryPerProbe ==
    /\ capromise # "rejected"
    /\ capc = "returned" =>
          /\ capromise = "resolved"
          /\ Len(results) = Len(probes)
          /\ \A i \in 1..Len(probes) :
                /\ results[i].name = probes[i]
                /\ ProbeFails(i) =>
                      /\ results[i].result.status = "unhealthy"
                      /\ results[i].result.responseTime = 5000

\* a probe that rejected at once and another that hung are both recorded
C11_Witness ==
    /\ capc = "returned"
    /\ Len(probes) = 2
    /\ \E i, j \in 1..2 :
          /\ checkers[i].kind \in {"reject", "throw"} /\ checkers[i].after = 0
          /\ checkers[j].kind = "never"
          /\ results[i].result.responseTime = 5000
          /\ results[j].result.message = "Health check timeout"

\* C12: checkAll starts every probe without waiting for the others, and it
\* returns within one timeout period (5000 ms) however many probes are slow.
C12_ProbesRunConcurrently ==
    /\ \A i \in 1..Len(races) : races[i].start = 0
    /\ capc = "returned" => returnedAt <= 5000

(***************************************************************************)
(* Properties of the health handlers' error path (checked under SpecHealth)*)
(***************************************************************************)
UnavailableKeywords == {"dependencies", "ready", "timeout", "connection"}

\* C13: when the health check throws, the handler answers 503 if the thrown
\* value is an Error whose message contains 'dependencies', 'ready', 'timeout'
\* or 'connection', and 500 otherwise (any other message, an empty message, a
\* value that is not an Error); the body is {data: null, message}, the message
\* being the Error's own and the default one for a non-Error.
C13_HealthErrorStatus ==
    (hpc = "done" /\ hcheck.settled = "rejected") =>
        LET e == hcheck.value
            matches == IsError(e) /\ HasKeyword(e.v, UnavailableKeywords)
        IN /\ hreply.status = IF matches THEN 503 ELSE 500
           /\ hreply.body = [data |-> Null,
                             message |-> IF IsError(e) THEN e.v
                                         ELSE "Health check failed"]

\* 'Database connection failed' has been answered 503
C13_Witness ==
    /\ hpc = "done" /\ hreq = "getHealth"
    /\ hcheck = Rejected(NewError("Error", "Database connection failed"))
    /\ hreply.status = 503
    /\ hreply.body.message = "Database connection failed"

(***************************************************************************)
(* Properties of the repository mappers (checked under SpecMapper)         *)
(***************************************************************************)
\* the upstream supplies a value for the field
Supplied(x) == x # Undefined /\ x # Null

\* the default applies exactly when the upstream field is absent
DefaultWhenAbsent(x, out, default) ==
    out = IF Supplied(x) THEN x ELSE default

\* C14: mapToAgent gives prompt, model, temperature and maxTokens the upstream
\* system_prompt, response_engine.type, temperature and max_tokens whenever
\* the upstream supplies a value (0 and '' included) and '', 'unknown', 0.7 and
\* 1000 only when the field is missing; the other fields keep their values
\* under camelCase names.
C14_DefaultsOnlyWhenAbsent ==
    mapping.fn = "mapToAgent" =>
        LET api == mapping.input[1]
            agent == mapping.output[1]
            type == IF api.response_engine = Undefined
                    THEN Undefined ELSE api.engine.type
        IN /\ DefaultWhenAbsent(api.system_prompt, agent.prompt, Str(""))
           /\ DefaultWhenAbsent(type, agent.model, Str("unknown"))
           /\ DefaultWhenAbsent(api.temperature, agent.temperature, Num("0.7"))
           /\ DefaultWhenAbsent(api.max_tokens, agent.maxTokens, Num("1000"))
           /\ agent.id = api.agent_id
           /\ agent.name = api.agent_name
           /\ agent.voiceId = api.voice_id
           /\ agent.language = api.language
           /\ agent.version = api.version
           /\ agent.versionTitle = api.version_title
           /\ agent.channel = api.channel
           /\ agent.isPublished = api.is_published

\* the snake_case spelling of a camelCase name
RECURSIVE SnakeCase(_)
SnakeCase(name) ==
    IF name = "" THEN ""
    ELSE LET c == SubSeq(name, 1, 1)
             rest == SnakeCase(SubSeq(name, 2, Len(name)))
         IN IF \E i \in 1..Len(UpperCase) : SubSeq(UpperCase, i, i) = c
            THEN LET i == CHOOSE j \in 1..Len(UpperCase) : SubSeq(UpperCase, j, j) = c
                 IN "_" \o SubSeq(LowerCase, i, i) \o rest
            ELSE c \o rest

\* C15: getAgentVersions returns one AgentVersion per upstream record, in the
\* same order, and every field of it equals the upstream snake_case field:
\* null stays null, absent stays undefined, 0, false and '' are kept.
C15_VersionsFieldByField ==
    mapping.fn = "getAgentVersions" =>
        /\ Len(mapping.output) = Len(mapping.input)
        /\ \A i \in 1..Len(mapping.input) :
              \A field \in DOMAIN mapping.output[i] :
                  mapping.output[i][field] = mapping.input[i][SnakeCase(field)]

\* two different upstream versions, the first with voice_speed 0, mapped
C15_Witness ==
    /\ mapping.fn = "getAgentVersions"
    /\ Len(mapping.input) = 2
    /\ mapping.input[1] # mapping.input[2]
    /\ mapping.input[1].voice_speed = Num("0")
    /\ mapping.output[1].voiceSpeed = Num("0")
    /\ mapping.output[2].voiceSpeed # Num("0")

(***************************************************************************)
(* Properties of the prompt retrieval (checked under SpecPrompt)           *)
(***************************************************************************)
AgentFetched == fetch.pc \in {"getLLM", "done"} /\ fetch.agent.kind = "ok"
PromptReturned == fetch.pc = "done" /\ ~fetch.result.thrown

\* C16: getAgentPrompt fetches the agent first and calls getLLM only
\* afterwards, only with that agent's response_engine.llm_id and at most
\* once; getLLM is never called when the agent fetch failed or the agent has
\* no llm_id; on success the result carries the LLM's general_prompt ('' if
\* absent), version and last_modification_timestamp unchanged.
C16_AgentThenLLM ==
    /\ fetch.pc # "idle" => fetch.calls[1] = "/get-agent/" \o fetch.id
    /\ Len(fetch.calls) <= 2
    /\ Len(fetch.calls) = 2 =>
          /\ AgentFetched
          /\ fetch.llmId # ""
          /\ fetch.calls[2] = "/get-retell-llm/" \o fetch.llmId
    /\ PromptReturned =>
          /\ Len(fetch.calls) = 2
          /\ fetch.response.agent_id = Str(fetch.id)
          /\ fetch.response.system_prompt =
                IF Supplied(fetch.data.general_prompt)
                THEN fetch.data.general_prompt ELSE Str("")
          /\ fetch.response.prompt_version = fetch.data.version
          /\ fetch.response.last_modification_time =
                fetch.data.last_modification_timestamp
          /\ fetch.entity.prompt = fetch.response.system_prompt
          /\ fetch.entity.version = fetch.data.version
          /\ fetch.data.last_modification_timestamp.t = "number" =>
                fetch.entity.updatedAt.v = fetch.data.last_modification_timestamp.v

\* a prompt was returned for an LLM without general_prompt and with version 0
C16_Witness ==
    /\ PromptReturned
    /\ fetch.calls = <<"/get-agent/agent-123", "/get-retell-llm/llm-2">>
    /\ fetch.data.general_prompt = Undefined
    /\ fetch.data.version = Num("0")
    /\ fetch.response.system_prompt = Str("")
    /\ fetch.entity.updatedAt = Obj("Date", "1700000000000")

\* C17: when the fetched agent has no LLM identifier, the error that leaves
\* getAgentPrompt, and so the message the prompt endpoint returns, states that
\* the agent does not have an associated LLM.
C17_NoLLMErrorIsDescriptive ==
    (fetch.pc = "done" /\ fetch.agent.kind = "ok" /\ fetch.llmId = "") =>
        /\ fetch.result.thrown
        /\ Includes(fetch.result.value.v, "does not have an associated LLM")
        /\ Includes(handleError(fetch.result.value,
                                DefaultErrorMessage("getAgentPrompt")).body.message,
                    "does not have an associated LLM")

\* C18: a failing upstream request is retried until it succeeds or
\* API_RETRY_ATTEMPTS (3) attempts have been made; only then does the error
\* surface.
C18_RetriesBeforeFailing ==
    (fetch.pc = "done" /\ fetch.result.thrown
        /\ (fetch.agent.kind # "ok" \/ (fetch.llmId # "" /\ fetch.llm.kind # "ok"))) =>
        LET failed == fetch.calls[Len(fetch.calls)]
        IN Cardinality({i \in 1..Len(fetch.calls) : fetch.calls[i] = failed})
              = API_RETRY_ATTEMPTS

(***************************************************************************)
(* Properties of the MetricsCollector (checked under SpecMetrics)          *)
(***************************************************************************)
\* C19: no update is lost however the in-flight requests interleave: after N
\* recorded responses and no reset(), requests.total is N; the counter never
\* decreases except through reset(), and reset() sets every counter, the
\* histogram and both maps back to empty.
C19_NoLostUpdate ==
    [][/\ resets' = 0 => getMetricsRequests(metrics').total = recorded'
       /\ resets' = resets => metrics'.requestCount >= metrics.requestCount
       /\ resets' # resets =>
             /\ metrics'.requestCount = 0
             /\ metrics'.errorCount = 0
             /\ metrics'.responseTimeHistogram = <<>>
             /\ DOMAIN metrics'.statusCodeCounts = {}
             /\ DOMAIN metrics'.endpointMetrics = {}]_vars

\* three requests were in flight together and the last to arrive was
\* recorded first, with an error status
C19_Witness ==
    /\ resets = 0
    /\ recorded = 1
    /\ {r.id : r \in inflight} = {1, 2}
    /\ getMetricsRequests(metrics) = [total |-> 1, errors |-> 1]

(***************************************************************************)
(* Properties of concurrent agent requests (checked under SpecConcurrent)  *)
(***************************************************************************)
\* the replies a handler sends for its own parameters and repository outcome
OwnReplies(h, params, o) ==
    LET before == handlerPrologue(h, params)
        after == handlerEpilogue(h, params.id.v, o)
    IN IF before.thrown
       THEN safeAsyncHandler(<<>>, before, DefaultErrorMessage(h)).replies
       ELSE safeAsyncHandler(after.sent, after.completion, DefaultErrorMessage(h)).replies

\* C20: with several agent requests in flight and their repository promises
\* settling in any order, each reply has the status, data and message given
\* by its own id and its own repository outcome; no reply carries another
\* request's data.
C20_RequestsIndependent ==
    \A r \in 1..MaxInFlight :
        conc[r].pc = "done" =>
            /\ conc[r].replies = OwnReplies(conc[r].handler, conc[r].params, conc[r].outcome)
            /\ Len(conc[r].replies) = 1
            /\ conc[r].replies[1].status = 200 =>
                  conc[r].replies[1].body.data = conc[r].outcome.value
            /\ \A q \in 1..MaxInFlight :
                  (/\ conc[q].params.id # conc[r].params.id
                   /\ conc[q].params.id.t = "string")
                  => ~Includes(conc[r].replies[1].body.message, conc[q].params.id.v)

\* two requests for different agents are in flight together: the second to
\* arrive has its own agent as answer while the first still awaits
C20_Witness ==
    /\ Len(repoLog) = 2
    /\ repoLog[1] = [method |-> "getAgent", id |-> "agent-1", request |-> 1]
    /\ repoLog[2] = [method |-> "getAgent", id |-> "agent-2", request |-> 2]
    /\ conc[1].pc = "awaiting"
    /\ conc[2].pc = "done"
    /\ conc[2].replies[1].body.data = Obj("Agent", "agent-2")

(***************************************************************************)
(* Properties of the errorHandler (checked under SpecErrorHandler)         *)
(***************************************************************************)
\* C21: every error response of the registered errorHandler (for a BaseError,
\* a ZodError or any other error) has the envelope {error: {message, code,
\* timestamp}}: the three fields the route error schemas require are present.
C21_ErrorEnvelope ==
    handled.fn = "errorHandler" =>
        {"message", "code", "timestamp"} \subseteq DOMAIN handled.reply.body.error

(***************************************************************************)
(* Case sensitivity of the agent classifier (checked under Spec)           *)
(***************************************************************************)
\* C22: the classifier's keyword test is an exact, case-sensitive substring
\* test on the lowercase keywords: an Error whose message holds a keyword only
\* in another capitalisation and no lowercase keyword (such as 'Network
\* unreachable') matches no family and is answered 500, while 'Access
\* forbidden to this agent' and 'authentication failed for agent access' are
\* answered 401 and 'Database connection failed' 502.
C22_CaseSensitiveKeywords ==
    (RejectedWithError /\ ~IsNotFoundError(outcome.value)) =>
        LET m == outcome.value.v
        IN /\ ~HasKeyword(m, ValidationKeywords \cup AuthorizationKeywords
                               \cup ConnectivityKeywords)
                 => replies[1].status = 500
           /\ m = "Network unreachable" => replies[1].status = 500
           /\ m \in {"Access forbidden to this agent",
                     "authentication failed for agent access"}
                 => replies[1].status = 401
           /\ m = "Database connection failed" => replies[1].status = 502

\* 'Network unreachable', with its keyword capitalised only, was answered 500
C22_Witness ==
    /\ RejectedWithError
    /\ outcome.value = NewError("Error", "Network unreachable")
    /\ Includes(ToLowerCase(outcome.value.v), "network")
    /\ replies[1].status = 500

(***************************************************************************)
(* C23: start-up with the default options registers every (method, path)   *)
(* at most once: when createApp is called without a monitoring option, it  *)
(* never rejects with a duplicated-route error, and once it has resolved   *)
(* GET /health is declared exactly once.                                   *)
(***************************************************************************)
HandlersOf(method, path) ==
    {i \in 1..Len(app.routes) : app.routes[i].method = method /\ app.routes[i].path = path}

C23_DefaultStartupNoDuplicateRoute ==
    (app.pc # "none" /\ ~app.hasMonitoring) =>
        /\ app.pc # "rejected"
        /\ app.pc = "resolved" => Cardinality(HandlersOf("GET", "/health")) = 1

(***************************************************************************)
(* C24: setupGracefulShutdown.  The cleanup sequence onShutdown ->         *)
(* app.close is started at most once; the process has exited when the      *)
(* timer has fired, and no later than one tick after the configured        *)
(* timeout; it exits with 0 only when onShutdown and app.close both        *)
(* completed without error, the timer has not fired and no further signal  *)
(* arrived, and with 1 after a second signal, an error in onShutdown or    *)
(* app.close, or the timeout; and after the first signal the process       *)
(* eventually exits.                                                       *)
(***************************************************************************)
CleanShutdown ==
    /\ proc.cleanup = "completed" /\ proc.closing = "closed"
    /\ proc.timer # "fired" /\ Len(proc.received) = 1

C24_Safety ==
    /\ proc.onShutdownCalls <= 1 /\ proc.closeCalls <= 1
    /\ proc.timer = "fired" => proc.exited
    /\ (proc.isShuttingDown /\ ~proc.exited) => proc.elapsed < proc.timeout + TickMs
    /\ proc.exited => proc.exitCode \in {0, 1}
    /\ (proc.exited /\ proc.exitCode = 0) => CleanShutdown
    /\ (proc.exited /\ ~CleanShutdown) => proc.exitCode = 1

C24_GracefulShutdown ==
    /\ []C24_Safety
    /\ proc.isShuttingDown ~> proc.exited

\* a shutdown that completed with code 0 some time after the signal
C24_Witness ==
    /\ proc.exited /\ proc.exitCode = 0 /\ CleanShutdown
    /\ proc.onShutdown = "returnsPromise" /\ proc.elapsed > 0

RECURSIVE SumOver(_, _)
SumOver(f, keys) ==
    IF keys = {} THEN 0
    ELSE LET key == CHOOSE x \in keys : TRUE
         IN  f[key] + SumOver(f, keys \ {key})

EndpointCounts == [e \in DOMAIN metrics.endpointMetrics |-> metrics.endpointMetrics[e].count]
EndpointErrors == [e \in DOMAIN metrics.endpointMetrics |-> metrics.endpointMetrics[e].errors]

C26_CountersAgree ==
    LET codes == DOMAIN metrics.statusCodeCounts
        endpoints == DOMAIN metrics.endpointMetrics
    IN  /\ metrics.errorCount <= metrics.requestCount
        /\ SumOver(metrics.statusCodeCounts, codes) = metrics.requestCount
        /\ SumOver(metrics.statusCodeCounts, {c \in codes : c >= 400}) = metrics.errorCount
        /\ SumOver(EndpointCounts, endpoints) = metrics.requestCount
        /\ SumOver(EndpointErrors, endpoints) = metrics.errorCount
        /\ \A e \in endpoints :
              metrics.endpointMetrics[e].errors <= metrics.endpointMetrics[e].count

\* after a reset, a success and an error were recorded on two endpoints
C26_Witness ==
    /\ resets = 1 /\ recorded > metrics.requestCount
    /\ metrics.errorCount = 1 /\ metrics.requestCount = 2
    /\ Cardinality(DOMAIN metrics.endpointMetrics) = 2

(***************************************************************************)
(* C27: the response-time histogram is a sliding window: it never holds    *)
(* more than 1000 entries, its contents are the last min(n, 1000)          *)
(* durations recorded, in arrival order, and requestCount counts all n.    *)
(***************************************************************************)
C27_SlidingWindow ==
    LET durations == timings
        n == Len(durations)
        histogram == metrics.responseTimeHistogram
        kept == IF n < 1000 THEN n ELSE 1000
    IN  /\ Len(histogram) <= 1000
        /\ histogram = SubSeq(durations, n - kept + 1, n)
        /\ metrics.requestCount = n

\* more than 1000 durations were recorded and the oldest one, which differs
\* from the oldest one kept, has left the window
C27_Witness ==
    /\ metrics.requestCount > 1000
    /\ Len(metrics.responseTimeHistogram) = 1000
    /\ timings[1] # metrics.responseTimeHistogram[1]

(***************************************************************************)
(* C28: once the timeout of a probe has fired in checkAll, the late        *)
(* outcome of the probe has no effect: its entry stays the unhealthy       *)
(* 'Health check timeout' entry even when the probe resolves healthy       *)
(* later, no probe gets a second entry, and neither a late rejection nor   *)
(* the timer of a probe that settled in time makes checkAll reject or      *)
(* changes the entry the probe's own outcome produced.                     *)
(***************************************************************************)
\* the timer of probe i ran before the probe could settle
TimedOutFirst(i) ==
    /\ races[i].timer = "fired"
    /\ checkers[i].kind = "never" \/ checkers[i].after > HEALTH_CHECK_TIMEOUT_MS

\* probe i settled before its timer could run
SettledInTime(i) ==
    /\ races[i].probe = "settled"
    /\ checkers[i].after < HEALTH_CHECK_TIMEOUT_MS

C28_LateOutcomeIgnored ==
    /\ Len(results) <= Len(races) /\ Len(races) <= Len(probes)
    /\ capromise # "rejected"
    /\ \A i \in 1..Len(results) :
          /\ results[i].name = probes[i]
          /\ TimedOutFirst(i) =>
                results[i].result = HealthCheckResult(HealthStatus.UNHEALTHY,
                                                      "Health check timeout",
                                                      HEALTH_CHECK_TIMEOUT_MS)
          /\ SettledInTime(i) =>
                results[i].result =
                    checkOne([won |-> checkers[i].kind, result |-> checkers[i].result,
                              elapsed |-> checkers[i].after, error |-> checkers[i].error])

\* checkAll has returned, and a probe whose timeout had fired has since
\* resolved healthy
C28_Witness ==
    /\ capc = "returned"
    /\ \E i \in 1..Len(results) :
          /\ TimedOutFirst(i) /\ races[i].probe = "settled"
          /\ checkers[i].kind = "resolve" /\ checkers[i].result.status = "healthy"
          /\ results[i].result.status = "unhealthy"

\* checkAll has returned, and the timer of a probe that resolved in time has
\* since run
C28_WitnessLateTimer ==
    /\ capc = "returned"
    /\ \E i \in 1..Len(results) :
          SettledInTime(i) /\ races[i].timer = "fired" /\ checkers[i].kind = "reject"

(***************************************************************************)
(* C29: every AgentVersion returned by the repository has the declared     *)
(* shape also in its nested objects: responseEngine carries the LLM id     *)
(* under llmId, and userDtmfOptions carries digitLimit, terminationKey and *)
(* timeoutMs, not the upstream keys llm_id, digit_limit, termination_key   *)
(* and timeout_ms.                                                         *)
(***************************************************************************)
\* x is an object with keys of its own, not a scalar, null or undefined
IsNestedObject(x) == "t" \notin DOMAIN x

C29_NestedCamelCase ==
    mapping.fn = "getAgentVersions" =>
        \A i \in 1..Len(mapping.output) :
            LET api == mapping.input[i]
                version == mapping.output[i]
            IN  /\ IsNestedObject(version.responseEngine) =>
                      /\ DOMAIN version.responseEngine \subseteq {"type", "llmId", "version"}
                      /\ "llm_id" \in DOMAIN api.response_engine =>
                            "llmId" \in DOMAIN version.responseEngine
                /\ IsNestedObject(version.userDtmfOptions) =>
                      DOMAIN version.userDtmfOptions =
                          {"digitLimit", "terminationKey", "timeoutMs"}

(***************************************************************************)
(* C30: in every state of the useApi hook data and error are not both      *)
(* non-null, and once all the fetches started have settled the state is    *)
(* the outcome of the fetch started last, with loading false: an older     *)
(* response arriving later does not overwrite the newer one.               *)
(***************************************************************************)
AllFetchesSettled ==
    /\ hook.fetches # <<>>
    /\ \A i \in 1..Len(hook.fetches) : hook.fetches[i] # NotSettled

C30_LatestFetchWins ==
    /\ ~(hook.state.data # Null /\ hook.state.error # Null)
    /\ AllFetchesSettled =>
          LET last == hook.fetches[Len(hook.fetches)]
          IN  hook.state = IF last.settled = "resolved"
                           THEN fetchDataResolved(last.value)
                           ELSE fetchDataRejected(last.value)

====
